---- MODULE Spec2Model ----
(***************************************************************************)
(* A model of the generic maintenance routes of src/router.js: the         *)
(* path-addressed mutation handlers, their dirty notifications             *)
(* (markModified), their dry-run switch (saveEnabled) and their calls to   *)
(* the store (findOne, save, remove).                                      *)
(*                                                                         *)
(* One request is followed from its arrival to its response.  A handler    *)
(* is fetched a fresh document per request and keeps nothing between       *)
(* requests, so the stored document of Init ranges over every document of  *)
(* the bounded universe instead of being built up by earlier requests.     *)
(*                                                                         *)
(* Documents and their elements are read and written as plain objects:     *)
(* the segments of a path are key names, never array indices, and the      *)
(* store's save() is taken to write the fields notified by markModified.   *)
(***************************************************************************)
EXTENDS Integers, Sequences, FiniteSets, TLC

VARIABLES
    store,       \* the document as persisted in the collection
    handler,     \* the route handler serving the request ("" before arrival)
    pc,          \* the handler's position: idle, changes, saving, removing, done, crashed
    saveEnabled, \* res.locals.saveEnabled
    req,         \* the request body fields the handler reads
    obj,         \* the fetched in-memory document the handler mutates
    marked,      \* the arguments of object.markModified, in call order
    touched,     \* top-level field names the handler wrote, spliced or deleted
    saveCalls,   \* calls of object.save() made for the request
    removeCalls, \* calls of object.remove() made for the request
    resp,        \* the response sent: [status, body]
    sends,       \* calls of res.send made for the request
    err,         \* the error thrown or reported ("" when none)
    nApplied,    \* genericChangeField: changes read from req.body.changes so far
    usedPaths,   \* genericChangeField: the keys of req.body.changes read so far
    prevObj,     \* genericChangeField: the document before the latest change
    prevMarked,  \* genericChangeField: the markModified log before the latest change
    transfer,    \* genericTransfer: the two collections and the callbacks pending
    race,        \* two mutation requests in flight on the same stored document
    stats,       \* getStatistics: existingStatistics and the clock
    translate,   \* genericTranslate: the documents found and the saves called
    email        \* fireEmail: the findOne callbacks pending

\* The state of one request to a single-document handler.
core == <<store, handler, pc, saveEnabled, req, obj, marked, touched, saveCalls,
          removeCalls, resp, sends, err, nApplied, usedPaths, prevObj, prevMarked>>
\* The state the other handlers keep.
ext == <<transfer, race, stats, translate, email>>
\* The part of a request's state that only the single-document handlers use.
single == <<store, saveEnabled, obj, marked, touched, removeCalls, nApplied,
            usedPaths, prevObj, prevMarked>>
vars == <<core, ext>>

(***************************************************************************)
(* Bounds of the model.                                                    *)
(***************************************************************************)
\* Longest array a stored document holds before the request.
MaxArr == 1
\* Most entries of req.body.changes a genericChangeField request carries.
MaxChanges == 2

(***************************************************************************)
(* JavaScript values.  Every value is a record [t, v, e, f]: t its kind,   *)
(* v a primitive's payload, e an array's elements, f the own properties of *)
(* an object-like value (plain objects, arrays and ObjectIds all carry     *)
(* properties, as lodash's isObject sees them).                            *)
(***************************************************************************)
NoProps == <<>>
Undef == [t |-> "undef", v |-> "", e |-> <<>>, f |-> NoProps]
Null == [t |-> "null", v |-> "", e |-> <<>>, f |-> NoProps]
Val(s) == [t |-> "val", v |-> s, e |-> <<>>, f |-> NoProps]
Arr(e) == [t |-> "arr", v |-> "", e |-> e, f |-> NoProps]
Obj(f) == [t |-> "obj", v |-> "", e |-> <<>>, f |-> f]
Oid(s) == [t |-> "oid", v |-> s, e |-> <<>>, f |-> NoProps]
Date == [t |-> "date", v |-> "now", e |-> <<>>, f |-> NoProps]
Err(kind) == [t |-> "err", v |-> kind, e |-> <<>>, f |-> NoProps]

\* lodash isObject: true of objects, arrays, ObjectIds and Dates.
IsObject(v) == v.t \in {"obj", "arr", "oid", "date"}
IsArray(v) == v.t = "arr"
IsNullish(v) == v.t \in {"undef", "null"}

\* object[key] = value on the own properties f.
Put(f, k, val) == [x \in (DOMAIN f) \cup {k} |-> IF x = k THEN val ELSE f[x]]
\* delete object[key].
Del(f, k) == [x \in (DOMAIN f) \ {k} |-> f[x]]
\* object[key]: undefined when the key is no own property.
Prop(v, k) == IF IsObject(v) /\ k \in DOMAIN v.f THEN v.f[k] ELSE Undef

(***************************************************************************)
(* lodash's path functions over own properties.  A path is the sequence of *)
(* keys _.toPath gives for a dotted string; the keys of the model are      *)
(* names, never array indices.                                             *)
(***************************************************************************)
RECURSIVE Get(_, _)
\* _.get(object, path) without a default: undefined when a key is missing.
Get(v, p) == IF p = <<>> THEN v ELSE Get(Prop(v, Head(p)), Tail(p))

\* _.get(object, path, defaultValue): the default stands in for undefined.
GetOr(v, p, default) == IF Get(v, p) = Undef THEN default ELSE Get(v, p)

RECURSIVE Has(_, _)
\* _.has(object, path): every key of the path is an own property.
Has(v, p) ==
    IF p = <<>> THEN TRUE
    ELSE /\ IsObject(v)
         /\ Head(p) \in DOMAIN v.f
         /\ Has(v.f[Head(p)], Tail(p))

RECURSIVE SetIn(_, _, _)
\* lodash baseSet below the root: an intermediate key whose value is no
\* object (missing or a primitive) is given a fresh {} before descending.
SetIn(v, p, val) ==
    IF Len(p) = 1
    THEN [v EXCEPT !.f = Put(v.f, Head(p), val)]
    ELSE LET cur == Prop(v, Head(p))
             next == IF IsObject(cur) THEN cur ELSE Obj(NoProps)
         IN [v EXCEPT !.f = Put(v.f, Head(p), SetIn(next, Tail(p), val))]

\* A mutant of Set: the value is set in a fresh object, which loses the
\* other fields of the document.
SetInFresh(object, p, val) ==
    IF ~IsObject(object) THEN object ELSE SetIn(Obj(NoProps), p, val)

\* _.set(object, path, value): a no-op on a null object.
Set(object, p, val) == IF ~IsObject(object) THEN object ELSE SetIn(object, p, val)

\* The strings ObjectId converts (24 hex digits, in the code's terms).
ValidIds == {"id1", "id2"}
\* ObjectId(value): the identifier made of a valid string; Err when
\* the driver throws on the string.
ObjectId(s) == IF s \in ValidIds THEN Oid(s) ELSE Err("InvalidId")

(***************************************************************************)
(* The documents a request may find stored.  The top-level fields are _id  *)
(* (always present), a and b; a may nest plain objects two levels deep     *)
(* (keys x and y), so that a dotted path can meet a value, an array, an    *)
(* object or nothing at every one of its segments.                         *)
(***************************************************************************)
\* The functions over key k alone, and the one over no key.
Opt(k, S) == {NoProps} \cup {[x \in {k} |-> val] : val \in S}

ArraysOfS == {Arr([i \in 1..n |-> Val("s")]) : n \in 0..MaxArr}
Leaf == {Val("s")} \cup ArraysOfS
Level1 == Leaf \cup {Obj(f) : f \in Opt("x", Leaf)}
Level2 == Leaf \cup {Obj(fx @@ fy) : fx \in Opt("x", Level1), fy \in Opt("y", {Val("s")})}
DocId == Oid("doc1")
ChangeDocs ==
    {Obj([x \in {"_id"} |-> DocId] @@ fa @@ fb) : fa \in Opt("a", Level2), fb \in Opt("b", Leaf)}

(***************************************************************************)
(* genericChangeField, src/router.js 504-557.  req.body.changes maps each  *)
(* dotted path to a change; Object.entries reads the entries in insertion  *)
(* order, and each entry is drawn here when the loop reads it.             *)
(***************************************************************************)
Paths == {<<"_id">>, <<"a">>, <<"b">>, <<"a", "x">>, <<"a", "y">>, <<"a", "x", "x">>}

\* The shapes of a change value: a string ("str"), null, an object of no
\* key ("none"), of one key ("one"), of two keys ("two").
Malformed ==
    {[path |-> p, shape |-> sh, tag |-> "", value |-> ""] :
        p \in Paths, sh \in {"str", "null", "none", "two"}}
TagValues ==
    {<<"$set", "v">>, <<"$setid", "id1">>, <<"$setid", "bad">>,
     <<"$setstatus", "v">>, <<"$push", "v">>, <<"$inc", "v">>}
WellShaped ==
    {[path |-> p, shape |-> "one", tag |-> tv[1], value |-> tv[2]] :
        p \in Paths, tv \in TagValues}
Changes == Malformed \cup WellShaped

\* The outcome of one iteration: the document, the markModified log, the
\* top-level fields written and the error thrown ("" when none).
Outcome(o, m, t, e) == [obj |-> o, marked |-> m, touched |-> t, err |-> e]

\* object.markModified(fieldName) after a change was applied: a TypeError
\* on a null object (findOne matched nothing).
MarkAfter(object, m, t, path) ==
    IF ~IsObject(object) THEN Outcome(object, m, t, "TypeError")
    ELSE Outcome(object, Append(m, path[1]), t \cup {path[1]}, "")

\* A mutant of PushChange: the missing-path test is dropped and the path
\* is always reset to [], so an existing array is lost.
PushChangeResetting(object, m, t, path, value) ==
    MarkAfter(Set(object, path, Arr(<<value>>)), m, t, path)

\* A mutant of PushChange: a value that is no array is wrapped into one
\* instead of being refused.
PushChangeCoercing(object, m, t, path, value) ==
    LET arr == Get(object, path)
    IN MarkAfter(Set(object, path,
                     IF IsArray(arr) THEN [arr EXCEPT !.e = Append(@, value)]
                     ELSE Arr(<<value>>)), m, t, path)

\* The $push branch, lines 531-542: arr is the array at the path, in place.
PushChange(object, m, t, path, value) ==
    LET o0 == IF Has(object, path) THEN object ELSE Set(object, path, Arr(<<>>))
        t0 == IF o0 = object THEN t ELSE t \cup {path[1]}
        arr == GetOr(o0, path, value)
    IN IF ~IsArray(arr) THEN Outcome(o0, m, t0, "NotArray")
       ELSE MarkAfter(SetIn(o0, path, [arr EXCEPT !.e = Append(@, value)]), m, t0, path)

\* A mutant of SetIdChange: a string ObjectId refuses is written as it is.
SetIdChangeLenient(object, m, t, path, value) ==
    MarkAfter(Set(object, path,
                  IF ObjectId(value).t = "err" THEN Val(value) ELSE ObjectId(value)),
              m, t, path)

\* The $setid branch, lines 525-527: ObjectId(value) is evaluated, and may
\* throw, before _.set is entered.
SetIdChange(object, m, t, path, value) ==
    IF ObjectId(value).t = "err" THEN Outcome(object, m, t, "InvalidId")
    ELSE MarkAfter(Set(object, path, ObjectId(value)), m, t, path)

\* A mutant of SetChange: one missing level is created, and nothing is
\* written when the parent's parent is missing too.
SetChangeOneLevel(object, m, t, path, value) ==
    IF Len(path) >= 3 /\ ~Has(object, SubSeq(path, 1, Len(path) - 2))
    THEN Outcome(object, m, t, "MissingPath")
    ELSE MarkAfter(Set(object, path, value), m, t, path)

\* The $set branch, lines 522-524.
SetChange(object, m, t, path, value) == MarkAfter(Set(object, path, value), m, t, path)

\* One iteration of the forEach over Object.entries(changes), lines 516-549.
\* A null change passes the typeof test and makes Object.keys throw.
ApplyChange(object, m, t, c) ==
    IF c.shape = "str" THEN Outcome(object, m, t, "BadChange")
    ELSE IF c.shape = "null" THEN Outcome(object, m, t, "TypeError")
    ELSE IF c.shape # "one" THEN Outcome(object, m, t, "BadChange")
    ELSE IF c.tag = "$set" THEN SetChange(object, m, t, c.path, Val(c.value))
    ELSE IF c.tag = "$setid" THEN SetIdChange(object, m, t, c.path, c.value)
    ELSE IF c.tag = "$setstatus"
        THEN MarkAfter(Set(object, c.path,
                           Obj([code |-> Val(c.value), date |-> Date])), m, t, c.path)
    ELSE IF c.tag = "$push" THEN PushChange(object, m, t, c.path, Val(c.value))
    ELSE Outcome(object, m, t, "Unrecognized")

\* A mutant of Rejects: only a bad or unrecognized change ends the loop,
\* as if the other exceptions were caught and logged.
RejectsBadChangeOnly(e) == e \in {"BadChange", "Unrecognized"}

\* Lines 516-549: an exception thrown in the loop leaves the handler, so
\* nothing after the loop runs.
Rejects(e) == e # ""

\* A mutant of EndOfChanges: every top-level field is notified before the
\* document is sent or saved.
EndOfChangesMarkingAll(se, o, m, t) ==
    LET keys == IF IsObject(o) THEN DOMAIN o.f ELSE {}
        all == IF "_id" \in keys THEN Append(m, "_id") ELSE m
    IN IF ~se THEN [obj |-> o, marked |-> all, touched |-> t, kind |-> "send",
                    status |-> 200, body |-> o, err |-> ""]
       ELSE [obj |-> o, marked |-> all, touched |-> t, kind |-> "save",
             status |-> 0, body |-> Undef, err |-> ""]

\* Lines 551-555, what follows the loop.
EndOfChanges(se, o, m, t) ==
    IF ~se THEN [obj |-> o, marked |-> m, touched |-> t, kind |-> "send",
                 status |-> 200, body |-> o, err |-> ""]
    ELSE IF ~IsObject(o)
    THEN [obj |-> o, marked |-> m, touched |-> t, kind |-> "throw",
          status |-> 500, body |-> Undef, err |-> "TypeError"]
    ELSE [obj |-> o, marked |-> m, touched |-> t, kind |-> "save",
          status |-> 0, body |-> Undef, err |-> ""]

\* The status of the error response: createError(400, ...) for a bad or
\* unrecognized change, 500 for every other error.
ErrorStatus(e) == IF e \in {"BadChange", "Unrecognized"} THEN 400 ELSE 500

NoResp == [status |-> 0, body |-> Undef]
Response(status, body) == [status |-> status, body |-> body]

(***************************************************************************)
(* The array handlers work on documents whose field list holds nothing, a  *)
(* string or an array of elements: sub-objects with an _id (and possibly a *)
(* key k and a nested array sub), bare ObjectIds or strings.               *)
(***************************************************************************)
\* Longest list a stored document holds before the request.
MaxList == 2

El(i, rest) == Obj([x \in {"_id"} |-> Oid(i)] @@ rest)
Elems ==
    {El("e1", [k |-> Oid("k1"), sub |-> Arr(<<>>)]), El("e2", [k |-> Oid("k1")]),
     El("e3", [k |-> Oid("k2")]), El("e4", NoProps),
     El("e5", [k |-> Val("constructor")]),
     Oid("id1"), Oid("id2"), Val("s")}
RECURSIVE SeqsUpTo(_, _)
\* The sequences over S of length at most n.
SeqsUpTo(S, n) ==
    IF n = 0 THEN {<<>>}
    ELSE SeqsUpTo(S, n - 1) \cup {Append(q, x) : q \in SeqsUpTo(S, n - 1), x \in S}
Lists == {Arr(q) : q \in SeqsUpTo(Elems, MaxList)}
ListDocs ==
    {Obj([x \in {"_id"} |-> DocId] @@ fl) : fl \in Opt("list", {Val("s")} \cup Lists)}

\* What a handler's synchronous part ends in: a response ("send"), a call of
\* save() or remove(), or an exception nobody catches ("crash": thrown
\* inside a store callback, it reaches no response).
Result(o, m, t, kind, status, body, e) ==
    [obj |-> o, marked |-> m, touched |-> t, kind |-> kind,
     status |-> status, body |-> body, err |-> e]
Crash(o, m, t, e) == Result(o, m, t, "crash", 0, Undef, e)

\* A mutant of SendOrSave: the dry-run test is dropped and save() is
\* always called.
SendOrSaveAlways(se, o, m, t) == Result(o, m, t, "save", 0, Undef, "")

\* The tail every mutation handler shares: the dry run sends the document,
\* the live run calls save().
SendOrSave(se, o, m, t) ==
    IF se THEN Result(o, m, t, "save", 0, Undef, "")
    ELSE Result(o, m, t, "send", 200, o, "")

\* array.find(callback), given what the callback does at each element in
\* turn ("hit": returns true, "miss": returns false, "throw"): the index of
\* the first hit, 0 when there is none, -1 when the callback throws first.
FindIndex(calls) ==
    LET stops == {i \in 1..Len(calls) : calls[i] # "miss"}
        first == IF stops = {} THEN 0 ELSE CHOOSE i \in stops : \A j \in stops : i <= j
    IN IF first = 0 THEN 0 ELSE IF calls[first] = "throw" THEN -1 ELSE first

\* What a find callback does at an element: it throws, or tests it.
Call(throws, test) == IF throws THEN "throw" ELSE IF test THEN "hit" ELSE "miss"

\* value.toString(): the hex string of an ObjectId, the string itself,
\* "[object Object]" for a plain object.
toString(v) ==
    IF v.t \in {"oid", "val"} THEN v.v
    ELSE IF v.t = "arr" THEN "array"
    ELSE "[object Object]"

\* objectId.equals(other) for an ObjectId and a string or ObjectId.
IdEquals(id, other) == id.v = other.v

(***************************************************************************)
(* pushArrayValue, src/router.js 702-741.                                  *)
(***************************************************************************)
\* Lines 718-725: the value with its identifiers converted; Err when
\* ObjectId throws.
PushValue(value, idValues) ==
    IF idValues = Val("object") THEN ObjectId(value.v)
    ELSE IF IsNullish(idValues) THEN value
    ELSE LET id == ObjectId(Prop(value, "ref").v)
         IN IF id.t = "err" THEN id ELSE [value EXCEPT !.f = Put(@, "ref", id)]

PushInputs ==
    {[field |-> fd, value |-> vi[1], idValues |-> vi[2]] :
        fd \in {"list", "b"},
        vi \in {<<Val("v"), Null>>, <<Val("id1"), Val("object")>>,
                <<Val("bad"), Val("object")>>,
                <<Obj([ref |-> Val("id1")]), Arr(<<Val("ref")>>)>>}}

\* Lines 710-733, the findOne callback up to the save.
pushArrayValueBody(object, se, r) ==
    IF object = Null
    THEN Result(object, <<>>, {}, "send", 404, Err("No objects found"), "NotFound")
    ELSE LET array == Prop(object, r.field)
             value == PushValue(r.value, r.idValues)
             m == <<r.field>>
         IN IF value.t = "err" THEN Crash(object, <<>>, {}, "InvalidId")
            ELSE IF ~IsArray(array) THEN Crash(object, m, {}, "TypeError")
            ELSE SendOrSave(se,
                    [object EXCEPT !.f = Put(@, r.field, [array EXCEPT !.e = Append(@, value)])],
                    m, {r.field})

(***************************************************************************)
(* addUniqueValuesToList, src/router.js 655-700.                           *)
(***************************************************************************)
\* A mutant of AddUnique: the search for an existing element is dropped
\* and every identifier is pushed.
AddUniqueAlways(q, ids) ==
    [e |-> q \o [i \in 1..Len(ids) |-> ObjectId(ids[i])], err |-> ""]

RECURSIVE AddUnique(_, _)
\* Lines 679-686 on the elements q: each identifier no element equals is
\* pushed as an ObjectId.  Err when an element has no equals method or
\* when ObjectId throws; the elements pushed before stay pushed.
AddUnique(q, ids) ==
    IF ids = <<>> THEN [e |-> q, err |-> ""]
    ELSE LET idx == FindIndex([i \in 1..Len(q) |->
            Call(q[i].t # "oid", IdEquals(q[i], Val(Head(ids))))])
         IN IF idx = -1 THEN [e |-> q, err |-> "TypeError"]
            ELSE IF idx > 0 THEN AddUnique(q, Tail(ids))
            ELSE IF ObjectId(Head(ids)).t = "err" THEN [e |-> q, err |-> "InvalidId"]
            ELSE AddUnique(Append(q, ObjectId(Head(ids))), Tail(ids))

AddUniqueInputs ==
    {[field |-> fd, idValues |-> ids] :
        fd \in {"list", "b"},
        ids \in {<<>>, <<"id1">>, <<"id2">>, <<"id1", "id1">>, <<"id2", "id1">>,
                 <<"bad">>, <<"id1", "bad">>}}

\* Lines 662-691, the findOne callback up to the save.  The while loop of
\* 675-677 stops at the field's value, or at the document itself when the
\* field is missing; find exists on arrays only.
addUniqueValuesToListBody(object, se, r) ==
    IF object = Null
    THEN Result(object, <<>>, {}, "send", 404, Err("No objects found"), "NotFound")
    ELSE LET array == IF IsNullish(Prop(object, r.field)) THEN object
                      ELSE Prop(object, r.field)
         IN IF r.idValues = <<>>
            THEN SendOrSave(se, object, IF se THEN <<r.field>> ELSE <<>>, {})
            ELSE IF ~IsArray(array) THEN Crash(object, <<>>, {}, "TypeError")
            ELSE LET out == AddUnique(array.e, r.idValues)
                     o2 == [object EXCEPT !.f = Put(@, r.field, [array EXCEPT !.e = out.e])]
                     t2 == IF o2 = object THEN {} ELSE {r.field}
                 IN IF out.err # "" THEN Crash(o2, <<>>, t2, out.err)
                    ELSE SendOrSave(se, o2, IF se THEN <<r.field>> ELSE <<>>, t2)

(***************************************************************************)
(* addArrayDuplicates, src/router.js 811-845.                              *)
(***************************************************************************)
\* Object.assign({}, element): the own enumerable properties of the element
\* on a fresh plain object (a string gives its characters by index, an
\* ObjectId its internal fields).
Assign(el) ==
    IF el.t = "val" THEN Obj([x \in {"0"} |-> el])
    ELSE IF el.t = "oid" THEN Obj([_bsontype |-> Val("ObjectID"), id |-> Val(el.v)])
    ELSE Obj(el.f)

\* A mutant of ArrayNotFound: a field without an array is taken as
\* nothing to do and the document is sent back with 200.
ArrayNotFoundAsNoOp(object) == Result(object, <<>>, {}, "send", 200, object, "")

\* Lines 841-843 and 885-887: the field holds no array.
ArrayNotFound(object) ==
    Result(object, <<>>, {}, "send", 404, Err("Array not found!"), "NotAnArray")

\* Line 824: the keys under which Object.assign hands the copy the very
\* object the element holds (a property value that is an object is copied
\* as a reference).
Shared(el) == IF el.t = "obj" THEN {k \in DOMAIN el.f : IsObject(el.f[k])} ELSE {}

ArrayFieldInputs == {[arrayField |-> fd] : fd \in {"list", "b"}}

\* Lines 817-843, the findOne callback up to the save; object is not
\* tested for null before object[arrayField] is read.
addArrayDuplicatesBody(object, se, r) ==
    IF object = Null THEN Crash(object, <<>>, {}, "TypeError")
    ELSE LET array == Prop(object, r.arrayField)
         IN IF IsArray(array)
            THEN LET duplicates == [i \in 1..Len(array.e) |-> Assign(array.e[i])]
                     o2 == [object EXCEPT
                               !.f = Put(@, r.arrayField, [array EXCEPT !.e = @ \o duplicates])]
                 IN SendOrSave(se, o2, <<r.arrayField>>,
                               IF o2 = object THEN {} ELSE {r.arrayField})
            ELSE ArrayNotFound(object)

(***************************************************************************)
(* removeArrayDuplicates, src/router.js 847-889.                           *)
(***************************************************************************)
\* Lines 861-864: the element's key, Null when it has none.
FieldKey(el, uniqueField) ==
    IF uniqueField = Null THEN Val(toString(el))
    ELSE IF IsNullish(Prop(el, uniqueField.v)) THEN Null
    ELSE Val(toString(Prop(el, uniqueField.v)))

\* Lines 859 and 868: objectKeys is an object literal, so objectKeys[key]
\* is also truthy for a key Object.prototype defines.
ObjectPrototypeKeys == {"constructor"}
Truthy(objectKeys, key) == key \in objectKeys \cup ObjectPrototypeKeys

RECURSIVE Filter(_, _, _)
\* Lines 860-873: the elements kept, objectKeys being the keys set so far.
Filter(q, uniqueField, objectKeys) ==
    IF q = <<>> THEN <<>>
    ELSE LET key == FieldKey(Head(q), uniqueField)
         IN IF key = Null THEN <<Head(q)>> \o Filter(Tail(q), uniqueField, objectKeys)
            ELSE IF Truthy(objectKeys, key.v) THEN Filter(Tail(q), uniqueField, objectKeys)
            ELSE <<Head(q)>> \o Filter(Tail(q), uniqueField, objectKeys \cup {key.v})

DedupInputs ==
    {[arrayField |-> fd, uniqueField |-> u] : fd \in {"list", "b"}, u \in {Null, Val("k")}}

\* Lines 854-887, the findOne callback up to the save.
removeArrayDuplicatesBody(object, se, r) ==
    IF object = Null THEN Crash(object, <<>>, {}, "TypeError")
    ELSE LET array == Prop(object, r.arrayField)
         IN IF IsArray(array)
            THEN LET o2 == [object EXCEPT
                               !.f = Put(@, r.arrayField,
                                         Arr(Filter(array.e, r.uniqueField, {})))]
                 IN SendOrSave(se, o2, <<r.arrayField>>, {r.arrayField})
            ELSE ArrayNotFound(object)

(***************************************************************************)
(* testForDuplicates, src/router.js 891-921.                               *)
(***************************************************************************)
RECURSIVE Scan(_, _, _, _)
\* Lines 907-913 on the elements q: the keys set in objectKeys and the
\* elements reported; TypeError when an element has no value to call
\* toString on under uniqueField (or uniqueField is not given).
Scan(q, uniqueField, objectKeys, duplicateObjects) ==
    IF q = <<>> THEN [keys |-> objectKeys, dups |-> duplicateObjects, err |-> ""]
    ELSE LET keyValue == IF uniqueField = Null THEN Undef
                         ELSE Prop(Head(q), uniqueField.v)
         IN IF IsNullish(keyValue)
            THEN [keys |-> objectKeys, dups |-> duplicateObjects, err |-> "TypeError"]
            ELSE IF Truthy(objectKeys, toString(keyValue))
            THEN Scan(Tail(q), uniqueField, objectKeys, Append(duplicateObjects, Head(q)))
            ELSE Scan(Tail(q), uniqueField, objectKeys \cup {toString(keyValue)},
                      duplicateObjects)

\* Lines 915-919, the body of the 200 response.
Report(originalLength, uniqeLength, duplicateObjects) ==
    [originalLength |-> originalLength, uniqeLength |-> uniqeLength,
     duplicateObjects |-> duplicateObjects]

TestInputs ==
    {[field |-> fd, uniqueField |-> u] : fd \in {"list", "b"}, u \in {Null, Val("k")}}

\* Lines 897-919, the findOne callback; array.forEach throws when the
\* field holds no array.
testForDuplicatesBody(object, se, r) ==
    IF object = Null
    THEN Result(object, <<>>, {}, "send", 404, Err("No object found!"), "NotFound")
    ELSE LET array == Prop(object, r.field)
         IN IF ~IsArray(array) THEN Crash(object, <<>>, {}, "TypeError")
            ELSE LET scan == Scan(array.e, r.uniqueField, {}, <<>>)
                 IN IF scan.err # "" THEN Crash(object, <<>>, {}, scan.err)
                    ELSE Result(object, <<>>, {}, "send", 200,
                                Report(Len(array.e), Cardinality(scan.keys), scan.dups), "")

(***************************************************************************)
(* genericInject, src/router.js 596-653.                                   *)
(***************************************************************************)
\* The element at index i of an array replaced.
ReplaceAt(array, i, el) == [array EXCEPT !.e = [@ EXCEPT ![i] = el]]

\* Array.prototype.push.apply(target, data) on a target that is no array:
\* the data lands on the target's own index keys, with a length beside it.
IndexKey(i) == IF i = 1 THEN "0" ELSE IF i = 2 THEN "1" ELSE "2"
RECURSIVE PushApply(_, _, _)
PushApply(target, data, i) ==
    IF i > Len(data) THEN [target EXCEPT !.f = Put(@, "length", Val(IndexKey(i)))]
    ELSE PushApply([target EXCEPT !.f = Put(@, IndexKey(i), data[i])], data, i + 1)

\* Line 631: each datum wrapped as a one-element array of a text record.
Localized(data) ==
    Arr([i \in 1..Len(data) |-> Arr(<<Obj([text |-> data[i], language |-> Val("en")])>>)])

RECURSIVE Inject(_, _, _, _)
\* Lines 619-639 from the current object on: the current object after the
\* remaining fields were walked, or Err when a step throws.  A find that
\* matches nothing leaves undefined, which throws at the next field only.
Inject(cur, fields, ids, data) ==
    IF fields = <<>> THEN cur
    ELSE IF ~IsObject(cur) THEN Err("TypeError")
    ELSE LET fld == Head(fields)
             arr == Prop(cur, fld)
         IN IF ids # <<>>
            THEN IF ~IsArray(arr) THEN Err("TypeError")
                 ELSE LET idx == FindIndex([i \in 1..Len(arr.e) |->
                         Call(IsNullish(Prop(arr.e[i], "_id")), toString(Prop(arr.e[i], "_id")) = Head(ids))])
                      IN IF idx = -1 THEN Err("TypeError")
                         ELSE IF idx = 0
                         THEN IF Len(fields) > 1 THEN Err("TypeError") ELSE cur
                         ELSE LET sub == Inject(arr.e[idx], Tail(fields), Tail(ids), data)
                              IN IF sub.t = "err" THEN sub
                                 ELSE [cur EXCEPT !.f = Put(@, fld, ReplaceAt(arr, idx, sub))]
            ELSE IF fld = "enum_opts"
            THEN Inject([cur EXCEPT !.f = Put(@, fld, Localized(data))], Tail(fields), ids, data)
            ELSE IF ~IsArray(arr) THEN Err("TypeError")
            ELSE Inject(PushApply(cur, data, 1), Tail(fields), ids, data)

InjectInputs ==
    {[injectData |-> <<Val("d")>>, injectToField |-> fi[1], injectToFieldId |-> fi[2]] :
        fi \in {<<<<"list">>, <<"e1">>>>, <<<<"list">>, <<"">>>>,
                <<<<"list", "sub">>, <<"e1">>>>, <<<<"list", "sub">>, <<"e9">>>>,
                <<<<"list", "k">>, <<"e3">>>>, <<<<"list", "enum_opts">>, <<"e2">>>>,
                <<<<"b">>, <<"e1">>>>}}

\* Lines 604-651, the findOne callback up to the save.
genericInjectBody(parentObject, se, r) ==
    IF parentObject = Null
    THEN Result(parentObject, <<>>, {}, "send", 404, Err("Not found!"), "NotFound")
    ELSE LET m == <<r.injectToField[1]>>
             o2 == Inject(parentObject, r.injectToField, r.injectToFieldId, r.injectData)
         IN IF o2.t = "err" THEN Crash(parentObject, m, {}, "TypeError")
            ELSE SendOrSave(se, o2, m,
                            IF o2 = parentObject THEN {} ELSE {r.injectToField[1]})

(***************************************************************************)
(* genericDeleteRoute, src/router.js 373-449.                              *)
(***************************************************************************)
\* array.splice(-1, 1) and array.splice(i - 1, 1) for a found element i.
Splice(array, idx) ==
    IF array.e = <<>> THEN array
    ELSE LET at == IF idx = 0 THEN Len(array.e) ELSE idx
         IN [array EXCEPT !.e = SubSeq(@, 1, at - 1) \o SubSeq(@, at + 1, Len(@))]

RECURSIVE DeleteById(_, _)
\* Lines 400-410 from the current object on: the current object with the
\* element spliced out of the last field's array, or Err when a step throws.
\* indexOf of an element that was not found is -1, and splice(-1, 1) takes
\* the last element.
DeleteById(cur, cfs) ==
    IF ~IsObject(cur) THEN Err("TypeError")
    ELSE LET cf == Head(cfs)
             child == Prop(cur, cf.field)
         IN IF cf.id # Null
            THEN IF ~IsArray(child) THEN Err("TypeError")
                 ELSE LET idx == FindIndex([i \in 1..Len(child.e) |->
                         Call(IsNullish(Prop(child.e[i], "_id")), IdEquals(Prop(child.e[i], "_id"), cf.id))])
                      IN IF idx = -1 THEN Err("TypeError")
                         ELSE IF Len(cfs) = 1
                         THEN [cur EXCEPT !.f = Put(@, cf.field, Splice(child, idx))]
                         ELSE IF idx = 0 THEN Err("TypeError")
                         ELSE LET sub == DeleteById(child.e[idx], Tail(cfs))
                              IN IF sub.t = "err" THEN sub
                                 ELSE [cur EXCEPT !.f = Put(@, cf.field, ReplaceAt(child, idx, sub))]
            ELSE IF Len(cfs) = 1
            THEN IF ~IsArray(child) THEN Err("TypeError")
                 ELSE [cur EXCEPT !.f = Put(@, cf.field, Splice(child, 0))]
            ELSE LET sub == DeleteById(child, Tail(cfs))
                 IN IF sub.t = "err" THEN sub
                    ELSE [cur EXCEPT !.f = Put(@, cf.field, sub)]

RECURSIVE DeleteFields(_, _)
\* Lines 426-429: delete object[deleteField] for each field.
DeleteFields(object, fields) ==
    IF fields = <<>> THEN object
    ELSE DeleteFields([object EXCEPT !.f = Del(@, Head(fields))], Tail(fields))

\* A request field that is absent is Null; a list is an array value, and an
\* empty list is truthy.
ById(field, id) == [field |-> field, id |-> id]
DeleteInputs ==
    {[query |-> q, deleteFieldsById |-> byId, deleteAll |-> all,
      deleteFields |-> fs, deleteArray |-> da] :
        q \in {Null, Val("q")},
        byId \in {Null, Arr(<<>>), Arr(<<ById("list", Val("e1"))>>),
                  Arr(<<ById("list", Val("e9"))>>), Arr(<<ById("list", Null)>>),
                  Arr(<<ById("list", Val("e1")), ById("sub", Null)>>)},
        all \in BOOLEAN,
        fs \in {Null, Arr(<<"list">>), Arr(<<"list", "b">>)},
        da \in {Null, Val("list")}}

\* Line 411: markModified is handed deleteFieldsById[0], the whole
\* {field, id} entry, which as a path reads "[object Object]".
DirtyArgument(deleteFieldsById) == "[object Object]"

\* Lines 382-387: the checks made before the store is asked.
deleteEarlyExit(r) ==
    IF r.deleteFields = Null /\ r.deleteFieldsById = Null /\ ~r.deleteAll
       /\ r.deleteArray = Null
    THEN Result(Undef, <<>>, {}, "send", 400, Err("Nothing to delete!"), "NothingToDelete")
    ELSE IF r.query = Null
    THEN Result(Undef, <<>>, {}, "send", 500, Err("No query"), "MissingQuery")
    ELSE Result(Undef, <<>>, {}, "go", 0, Undef, "")

\* Lines 389-441, the findOne callback up to the save or the remove.
genericDeleteRouteBody(object, se, r) ==
    IF object = Null
    THEN Result(object, <<>>, {}, "send", 500, Err("no objects found "), "NotFound")
    ELSE IF r.deleteFieldsById # Null
    THEN IF r.deleteFieldsById.e = <<>> THEN Crash(object, <<>>, {}, "TypeError")
         ELSE LET o2 == DeleteById(object, r.deleteFieldsById.e)
              IN IF o2.t = "err" THEN Crash(object, <<>>, {}, "TypeError")
                 ELSE SendOrSave(se, o2, <<DirtyArgument(r.deleteFieldsById)>>,
                                 IF o2 = object THEN {} ELSE {r.deleteFieldsById.e[1].field})
    ELSE IF r.deleteAll
    THEN IF se THEN Result(object, <<>>, {}, "remove", 0, Undef, "")
         ELSE Result(object, <<>>, {}, "send", 200, object, "")
    ELSE IF r.deleteFields # Null
    THEN SendOrSave(se, DeleteFields(object, r.deleteFields.e), r.deleteFields.e,
                    {r.deleteFields.e[i] : i \in 1..Len(r.deleteFields.e)})
    ELSE SendOrSave(se, [object EXCEPT !.f = Put(@, r.deleteArray.v, Arr(<<>>))],
                    <<r.deleteArray.v>>, {r.deleteArray.v})

(***************************************************************************)
(* modifyBid, src/router.js 1449-1478, on the Auction collection.          *)
(***************************************************************************)
ClosedAuction(i) ==
    Obj([item_auction_id |-> Oid(i),
         winningBid |-> Obj([value |-> Val("old"), user_id |-> Oid("u0"), _id |-> Oid("b0")])])
AuctionDocs ==
    {Obj([_id |-> DocId, closedAuctions |-> Arr(q)]) :
        q \in SeqsUpTo({ClosedAuction("e1"), ClosedAuction("e2")}, MaxList)}

BidInputs ==
    {[modifiedBid |-> mb, newValue |-> Val("v"), newUser |-> nu, newBidId |-> "id2"] :
        mb \in {"e1", "e9"}, nu \in {"id1", "bad"}}

\* Lines 1457-1470, the findOne callback up to the save.  A throwing
\* ObjectId(newUser) leaves winningBid.value already written; markModified
\* is called for nothing, and the dry run sends its document with 500.
modifyBidBody(auction, se, r) ==
    IF auction = Null THEN Crash(auction, <<>>, {}, "TypeError")
    ELSE LET closed == Prop(auction, "closedAuctions")
             idx == FindIndex([i \in 1..Len(closed.e) |->
                     Call(FALSE, IdEquals(Prop(closed.e[i], "item_auction_id"), Val(r.modifiedBid)))])
         IN IF idx = 0 THEN Crash(auction, <<>>, {}, "TypeError")
            ELSE LET bid == Prop(closed.e[idx], "winningBid")
                     b1 == [bid EXCEPT !.f = Put(@, "value", r.newValue)]
                     b2 == [b1 EXCEPT !.f = Put(@, "user_id", ObjectId(r.newUser))]
                     b3 == [b2 EXCEPT !.f = Put(@, "_id", ObjectId(r.newBidId))]
                     With(b) == [auction EXCEPT !.f = Put(@, "closedAuctions",
                                    ReplaceAt(closed, idx,
                                        [closed.e[idx] EXCEPT !.f = Put(@, "winningBid", b)]))]
                 IN IF ObjectId(r.newUser).t = "err"
                    THEN Crash(With(b1), <<>>, {"closedAuctions"}, "InvalidId")
                    ELSE IF ObjectId(r.newBidId).t = "err"
                    THEN Crash(With(b2), <<>>, {"closedAuctions"}, "InvalidId")
                    ELSE IF se
                    THEN Result(With(b3), <<>>, {"closedAuctions"}, "save", 0, Undef, "")
                    ELSE Result(With(b3), <<>>, {"closedAuctions"}, "send", 500, With(b3), "")

(***************************************************************************)
(* genericTransfer, src/router.js 559-594.  transfer holds                 *)
(*   from     the documents of fromModel that fromQuery matches,           *)
(*   to       the documents of toModel,                                    *)
(*   lookups  the source documents whose toModel.find is pending,          *)
(*   saves    the save() calls whose callback is pending,                  *)
(*   saved    the documents save() was called on, by target,               *)
(*   failed   the lookups and saves the store answered with an error,      *)
(*   logged   the failures handed to logger.error,                         *)
(*   sent     the variable sent of line 567.                               *)
(***************************************************************************)
\* Most source documents and most target documents of a transfer.
MaxSources == 2
MaxTargets == 2

SourceDocs ==
    {Obj([link |-> Val(l), from |-> Val(v)]) : l \in {"L1", "L2"}, v \in {"f1", "f2"}}
TargetDocs == {Obj([link |-> Val(l), to |-> Val("t0")]) : l \in {"L1", "L3"}}
TransferInputs ==
    {[linkField |-> "link", toField |-> "to", fromField |-> f] : f \in {"from", "other"}}

NoTransfer ==
    [from |-> <<>>, to |-> <<>>, lookups |-> {}, saves |-> {}, saved |-> {},
     failed |-> {}, logged |-> {}, sent |-> FALSE]

\* A mutant of Links: the link query is dropped and every document of
\* toModel is found.
LinksUnfiltered(to, currentObject, linkField) == DOMAIN to

\* Lines 573-575: the documents of toModel the link query matches, as
\* positions in the collection.
Links(to, currentObject, linkField) ==
    {j \in DOMAIN to : Prop(to[j], linkField) = Prop(currentObject, linkField)}

\* Line 580: the linked document with the source's value under toField.
Linked(currentLink, currentObject, r) ==
    [currentLink EXCEPT !.f = Put(@, r.toField, Prop(currentObject, r.fromField))]

(***************************************************************************)
(* modifyArrayValue, src/router.js 743-795.  The loop over fieldQuery is   *)
(* folded over the state [obj, cur, at, sends, resp, err]: the document,   *)
(* currentObject, the fields descended to reach it, the calls of res.send  *)
(* made inside the loop, the response the client got and the exception     *)
(* that ended the loop ("" when none).                                     *)
(***************************************************************************)
\* Most entries of fieldQuery.
MaxSteps == 2

ModifyElems ==
    {El("e1", [k |-> Oid("k1")]), El("e4", NoProps), El("e5", [k |-> Val("constructor")]),
     Val("s")}
ModifyDocs ==
    {Obj([x \in {"_id"} |-> DocId] @@ fl) :
        fl \in Opt("list", {Val("s")} \cup {Arr(q) : q \in SeqsUpTo(ModifyElems, MaxList)})}

\* The entries of fieldQuery: one without newValue descends into a field,
\* one with newValue rewrites a field of the first element that matches.
Descents ==
    {[field |-> fd, testArrayField |-> "", testArrayValue |-> "", newValue |-> Null,
      objectId |-> FALSE] : fd \in {"list", "zz"}}
Rewrites ==
    {[field |-> "k", testArrayField |-> tt[1], testArrayValue |-> tt[2],
      newValue |-> Val(nv[1]), objectId |-> nv[2]] :
        tt \in {<<"_id", "e1">>, <<"_id", "e9">>, <<"k", "constructor">>},
        nv \in {<<"n", FALSE>>, <<"n", TRUE>>, <<"id1", TRUE>>, <<"newID", FALSE>>}}
FieldQueries == SeqsUpTo(Descents \cup Rewrites, MaxSteps)

\* res.status(..).send(..) inside a callback: the first call answers the
\* request; a later call is refused by the framework with an exception
\* (the headers are sent), which nothing catches.
SendIn(st, status, body) ==
    IF st.sends = 0
    THEN [st EXCEPT !.sends = 1, !.resp = Response(status, body)]
    ELSE [st EXCEPT !.sends = @ + 1, !.err = "HeadersSent"]

\* Lines 763-786: one entry of fieldQuery.
ModifyField(st, currentField) ==
    IF currentField.newValue = Null
    THEN IF IsNullish(st.cur) THEN [st EXCEPT !.err = "TypeError"]
         ELSE [st EXCEPT !.cur = Prop(st.cur, currentField.field),
                         !.at = Append(@, currentField.field)]
    ELSE IF ~IsArray(st.cur) THEN [st EXCEPT !.err = "TypeError"]
    ELSE LET calls == [i \in 1..Len(st.cur.e) |->
                          LET tested == Prop(st.cur.e[i], currentField.testArrayField)
                          IN Call(IsNullish(tested),
                                  IF tested.t = "oid"
                                     THEN IdEquals(tested, Val(currentField.testArrayValue))
                                     ELSE tested = Val(currentField.testArrayValue))]
             found == FindIndex(calls)
             value == IF currentField.objectId THEN ObjectId(currentField.newValue.v)
                      ELSE currentField.newValue
             written == IF currentField.newValue = Val("newID") THEN Oid("new") ELSE value
         IN IF found = -1 THEN [st EXCEPT !.err = "TypeError"]
            ELSE IF found = 0
                 THEN SendIn(st, 404, Obj([currentObject |-> st.cur,
                                           currentField |-> Val(currentField.field)]))
            ELSE IF value.t = "err" THEN [st EXCEPT !.err = "InvalidId"]
            ELSE LET array == ReplaceAt(st.cur, found,
                                  [st.cur.e[found] EXCEPT
                                      !.f = Put(@, currentField.field, written)])
                 IN [st EXCEPT !.cur = array, !.obj = SetIn(@, st.at, array)]

RECURSIVE ForEachField(_, _)
\* Line 763: fieldQuery.forEach; a return inside the callback ends that
\* entry only, an exception ends the loop.
ForEachField(st, fieldQuery) ==
    IF fieldQuery = <<>> \/ st.err # "" THEN st
    ELSE ForEachField(ModifyField(st, Head(fieldQuery)), Tail(fieldQuery))

\* Lines 761-786: the findOne callback on a fetched document.
modifyArrayValueBody(object, fieldQuery) ==
    ForEachField([obj |-> object, cur |-> object, at |-> <<>>, sends |-> 0,
                  resp |-> NoResp, err |-> ""], fieldQuery)

(***************************************************************************)
(* genericTranslate, src/router.js 451-490.  A field name is the sequence  *)
(* of tokens split(".") gives.                                             *)
(***************************************************************************)
\* Most documents the query of a translation matches.
MaxObjects == 2

TranslateDocs ==
    {Obj([x \in {"_id"} |-> DocId] @@ fa @@ fb) :
        fa \in Opt("a", {Val("v"), Obj([x |-> Val("w")])}), fb \in Opt("b", {Val("u")})}
TranslatePaths == {<<"a">>, <<"b">>, <<"a", "x">>}
Updates ==
    {<<>>} \cup {<<[fromField |-> p, toField |-> q]>> : p, q \in TranslatePaths}

RECURSIVE Walk(_, _)
\* Lines 464-468 and 476-480: the value reached through all tokens but
\* the last, stopping at null or undefined.
Walk(v, tokens) ==
    IF Len(tokens) <= 1 \/ IsNullish(v) THEN v
    ELSE Walk(Prop(v, Head(tokens)), Tail(tokens))

RECURSIVE DeleteIn(_, _)
\* Line 471: delete currentValue[last], in place in the document.
DeleteIn(v, tokens) ==
    IF ~IsObject(v) THEN v
    ELSE IF Len(tokens) = 1 THEN [v EXCEPT !.f = Del(@, Head(tokens))]
    ELSE IF Head(tokens) \notin DOMAIN v.f THEN v
    ELSE [v EXCEPT !.f = Put(@, Head(tokens), DeleteIn(v.f[Head(tokens)], Tail(tokens)))]

RECURSIVE WriteIn(_, _, _)
\* Line 482: currentField[last] = finalValue, in place in the document.
WriteIn(v, tokens, finalValue) ==
    IF Len(tokens) = 1 THEN [v EXCEPT !.f = Put(@, Head(tokens), finalValue)]
    ELSE [v EXCEPT !.f = Put(@, Head(tokens),
                             WriteIn(v.f[Head(tokens)], Tail(tokens), finalValue))]

\* Lines 460-484: one update on one document.  Assigning a property of a
\* string throws in strict mode.
TranslateUpdate(st, update) ==
    LET currentValue == Walk(st.obj, update.fromField)
        last == update.fromField[Len(update.fromField)]
        finalValue == IF IsNullish(currentValue) THEN Undef ELSE Prop(currentValue, last)
        removed == IF IsNullish(currentValue) THEN st.obj
                   ELSE DeleteIn(st.obj, update.fromField)
        currentField == Walk(removed, update.toField)
        m == st.marked \o <<update.fromField[1], update.toField[1]>>
    IN IF IsNullish(currentField) \/ IsNullish(finalValue)
          THEN [obj |-> removed, marked |-> m, err |-> ""]
       ELSE IF ~IsObject(currentField)
          THEN [obj |-> removed, marked |-> m, err |-> "TypeError"]
       ELSE [obj |-> WriteIn(removed, update.toField, finalValue), marked |-> m, err |-> ""]

RECURSIVE ForEachUpdate(_, _)
\* Line 459: updates.forEach.
ForEachUpdate(st, updates) ==
    IF updates = <<>> \/ st.err # "" THEN st
    ELSE ForEachUpdate(TranslateUpdate(st, Head(updates)), Tail(updates))

RECURSIVE ForEachObject(_, _, _)
\* Lines 458-488: objects.forEach, which throws when objects is undefined;
\* each document is translated and save() is called on it, with no
\* callback.  out holds the documents done so far.
ForEachObject(out, objects, updates) ==
    IF ~objects.defined THEN [out EXCEPT !.err = "TypeError"]
    ELSE IF objects.docs = <<>> \/ out.err # "" THEN out
    ELSE LET st == ForEachUpdate([obj |-> Head(objects.docs), marked |-> <<>>, err |-> ""],
                                 updates)
         IN ForEachObject([objects |-> Append(out.objects, st.obj),
                           marks |-> Append(out.marks, st.marked),
                           saved |-> IF st.err = "" THEN out.saved + 1 ELSE out.saved,
                           err |-> st.err],
                          [objects EXCEPT !.docs = Tail(@)], updates)

\* model.find's answer as the callback receives it: the documents and no
\* error, or an error and no documents.
Found(stored, findError) ==
    IF findError THEN [defined |-> FALSE, docs |-> <<>>]
    ELSE [defined |-> TRUE, docs |-> stored]

(***************************************************************************)
(* getStatistics, src/router.js 24-69.  Time is counted in minutes;        *)
(* stats.existingStatistics is the module's cache, stats.now the clock and *)
(* stats.queries the store queries issued for the request.                 *)
(***************************************************************************)
\* The minutes the clock runs.
MaxTime == 12
\* Line 34: add(10, "minutes").
TenMinutes == 10

\* What the four counts resolve to.
CountValues ==
    [numberUsers : {1, 2}, numberRequests : {1}, numberOrders : {1},
     numberSpacesCreated : {1, 2}]

\* A mutant of Expired: the cache expires as soon as it is ten minutes old.
ExpiredAtTen(existing, now) == now >= existing.computedTime + TenMinutes

\* Lines 34-35: moment().isAfter(moment(computedTime).add(10, "minutes")).
Expired(existing, now) == now > existing.computedTime + TenMinutes

(***************************************************************************)
(* The store.  save() writes the in-memory value of every top-level field  *)
(* it was notified of, and keeps the stored value of the others.           *)
(***************************************************************************)
MarkedSet(m) == {m[i] : i \in 1..Len(m)}
Persist(stored, object, m) ==
    LET keep == {k \in DOMAIN stored.f : k \notin MarkedSet(m)}
        take == {k \in DOMAIN object.f : k \in MarkedSet(m)}
    IN Obj([k \in keep \cup take |-> IF k \in take THEN object.f[k] ELSE stored.f[k]])

NoReq == [handler |-> ""]

(***************************************************************************)
(* Two mutation requests in flight on one stored document: pushArrayValue  *)
(* (702-741) and genericChangeField (504-557).  race.reqs holds, for each  *)
(* request, its position, its body q, the document findOne returned, the   *)
(* in-memory document, its markModified log and the status it answered     *)
(* with; race.order lists the requests whose save succeeded, in order.     *)
(***************************************************************************)
Requesters == {1, 2}
NoRequest ==
    [pc |-> "idle", q |-> NoReq, fetched |-> Undef, obj |-> Undef, marked |-> <<>>,
     status |-> 0]
NoRace == [reqs |-> [i \in Requesters |-> NoRequest], order |-> <<>>]

RaceDocs ==
    {Obj([x \in {"_id"} |-> DocId] @@ fl) :
        fl \in Opt("list", {Arr(q) : q \in SeqsUpTo({Val("s")}, MaxList)})}
RaceRequests ==
    {q \in [handler : {"pushArrayValue", "genericChangeField"}, path : {<<"list">>, <<"b">>},
            tag : {"$push", "$set"}, value : {"v", "w"}] :
        q.handler = "pushArrayValue" => q.tag = "$push"}

\* The synchronous part of the request q on the fetched document, live run.
Mutate(object, q) ==
    IF q.handler = "pushArrayValue"
    THEN pushArrayValueBody(object, TRUE,
                            [field |-> q.path[1], value |-> Val(q.value), idValues |-> Null])
    ELSE LET out == ApplyChange(object, <<>>, {},
                                [path |-> q.path, shape |-> "one", tag |-> q.tag,
                                 value |-> q.value])
         IN IF Rejects(out.err)
            THEN Result(out.obj, out.marked, out.touched, "send",
                        ErrorStatus(out.err), Err(out.err), out.err)
            ELSE EndOfChanges(TRUE, out.obj, out.marked, out.touched)

\* A mutant of SaveCall: the save is dropped when the stored document is no
\* longer the one that was fetched.
SaveIfUnchanged(stored, fetched, object, m) ==
    IF stored = fetched THEN Persist(stored, object, m) ELSE stored

\* Lines 555 and 734: save() is called on the in-memory document; the
\* handler compares nothing with the store and holds no lock.
SaveCall(stored, fetched, object, m) == Persist(stored, object, m)

\* The state of the handlers a specification leaves out.
NoStats == [existingStatistics |-> Null, now |-> 0, queries |-> 0]
NoTranslate == [stored |-> <<>>, found |-> "", objects |-> <<>>, marks |-> <<>>]
NoEmail == [pending |-> 0, saves |-> 0]
\* No request has arrived.
Idle ==
    /\ handler = ""
    /\ pc = "idle"
    /\ saveEnabled = FALSE
    /\ req = NoReq
    /\ obj = Undef
    /\ marked = <<>>
    /\ touched = {}
    /\ saveCalls = 0
    /\ removeCalls = 0
    /\ resp = NoResp
    /\ sends = 0
    /\ err = ""
    /\ nApplied = 0
    /\ usedPaths = {}
    /\ prevObj = Undef
    /\ prevMarked = <<>>

Init ==
    /\ store \in ChangeDocs \cup ListDocs \cup AuctionDocs
    /\ Idle
    /\ transfer = NoTransfer
    /\ race = NoRace
    /\ stats = NoStats
    /\ translate = NoTranslate
    /\ email = NoEmail

\* res.status(status).send(body), ending the request.
Send(status, body) ==
    /\ resp' = Response(status, body)
    /\ sends' = sends + 1
    /\ pc' = "done"

\* The error handler's response to a rejected promise or a thrown error.
Fail(e) ==
    /\ err' = e
    /\ Send(ErrorStatus(e), Err(e))

\* Lines 504-510: the request arrives and findOne answers with the stored
\* document, with null (no match) or with an error.
genericChangeField_findOne ==
    /\ pc = "idle"
    /\ store \in ChangeDocs
    /\ handler' = "genericChangeField"
    /\ \E se \in BOOLEAN : saveEnabled' = se
    /\ \E found \in {"doc", "none", "error"} :
        IF found = "error"
        THEN /\ Fail("FindError")
             /\ obj' = obj
        ELSE /\ obj' = IF found = "doc" THEN store ELSE Null
             /\ pc' = "changes"
             /\ UNCHANGED <<resp, sends, err>>
    /\ UNCHANGED <<store, req, marked, touched, saveCalls, removeCalls,
                   nApplied, usedPaths, prevObj, prevMarked>>
    /\ UNCHANGED ext

\* Lines 516-549: the loop reads the next entry of changes and applies it;
\* an exception ends the request with the error response.
genericChangeField_forEach ==
    /\ pc = "changes"
    /\ handler = "genericChangeField"
    /\ nApplied < MaxChanges
    /\ \E c \in Changes :
        /\ c.path \notin usedPaths
        /\ LET out == ApplyChange(obj, marked, touched, c)
           IN /\ req' = c
              /\ usedPaths' = usedPaths \cup {c.path}
              /\ nApplied' = nApplied + 1
              /\ prevObj' = obj
              /\ prevMarked' = marked
              /\ obj' = out.obj
              /\ marked' = out.marked
              /\ touched' = out.touched
              /\ IF Rejects(out.err)
                 THEN Fail(out.err)
                 ELSE /\ err' = out.err
                      /\ UNCHANGED <<pc, resp, sends>>
    /\ UNCHANGED <<store, handler, saveEnabled, saveCalls, removeCalls>>
    /\ UNCHANGED ext

\* Lines 551-555: after the last entry, the dry run answers with the
\* document and the live run calls save(), which throws on a null object.
genericChangeField_end ==
    /\ pc = "changes"
    /\ handler = "genericChangeField"
    /\ LET res == EndOfChanges(saveEnabled, obj, marked, touched)
       IN /\ marked' = res.marked
          /\ IF res.kind = "send"
             THEN /\ Send(res.status, res.body)
                  /\ UNCHANGED <<saveCalls, err>>
             ELSE IF res.kind = "save"
             THEN /\ saveCalls' = saveCalls + 1
                  /\ pc' = "saving"
                  /\ UNCHANGED <<resp, sends, err>>
             ELSE /\ Fail(res.err)
                  /\ UNCHANGED saveCalls
    /\ UNCHANGED <<store, handler, saveEnabled, req, obj, touched,
                   removeCalls, nApplied, usedPaths, prevObj, prevMarked>>
    /\ UNCHANGED ext

\* Lines 555-556: save() resolves with the saved document or rejects.
genericChangeField_saved ==
    /\ pc = "saving"
    /\ handler = "genericChangeField"
    /\ \E ok \in BOOLEAN :
        IF ok
        THEN /\ store' = Persist(store, obj, marked)
             /\ Send(201, obj)
             /\ UNCHANGED err
        ELSE /\ Fail("SaveError")
             /\ UNCHANGED store
    /\ UNCHANGED <<handler, saveEnabled, req, obj, marked, touched, saveCalls,
                   removeCalls, nApplied, usedPaths, prevObj, prevMarked>>
    /\ UNCHANGED ext

(***************************************************************************)
(* The callback handlers.  Each runs from the request's arrival through    *)
(* its findOne callback in one step, and its save callback in another.     *)
(***************************************************************************)
\* The synchronous part of a callback handler, by the handler's name.
BodyOf(h, object, se, r) ==
    CASE h = "pushArrayValue" -> pushArrayValueBody(object, se, r)
      [] h = "addUniqueValuesToList" -> addUniqueValuesToListBody(object, se, r)
      [] h = "addArrayDuplicates" -> addArrayDuplicatesBody(object, se, r)
      [] h = "removeArrayDuplicates" -> removeArrayDuplicatesBody(object, se, r)
      [] h = "genericInject" -> genericInjectBody(object, se, r)
      [] h = "genericDeleteRoute" -> genericDeleteRouteBody(object, se, r)
      [] h = "modifyBid" -> modifyBidBody(object, se, r)
      [] h = "testForDuplicates" -> testForDuplicatesBody(object, se, r)

\* What the synchronous part of a handler leaves behind.
Apply(res) ==
    /\ obj' = res.obj
    /\ marked' = res.marked
    /\ touched' = res.touched
    /\ err' = res.err
    /\ IF res.kind = "send"
       THEN /\ Send(res.status, res.body)
            /\ UNCHANGED <<saveCalls, removeCalls>>
       ELSE IF res.kind = "save"
       THEN /\ saveCalls' = saveCalls + 1
            /\ pc' = "saving"
            /\ UNCHANGED <<removeCalls, resp, sends>>
       ELSE IF res.kind = "remove"
       THEN /\ removeCalls' = removeCalls + 1
            /\ pc' = "removing"
            /\ UNCHANGED <<saveCalls, resp, sends>>
       ELSE /\ pc' = "crashed"
            /\ UNCHANGED <<saveCalls, removeCalls, resp, sends>>

\* findOne's answer: the stored document, null (no match) or an error,
\* which every callback handler reports with status 500.
FindOne(h, se, r) ==
    \E found \in {"doc", "none", "error"} :
        IF found = "error"
        THEN Apply(Result(obj, <<>>, {}, "send", 500, Err("FindError"), "FindError"))
        ELSE Apply(BodyOf(h, IF found = "doc" THEN store ELSE Null, se, r))

Arrive(h, Docs, Inputs) ==
    /\ pc = "idle"
    /\ store \in Docs
    /\ \E se \in BOOLEAN, r \in Inputs :
        /\ saveEnabled' = se
        /\ req' = r
        /\ FindOne(h, se, r)
    /\ UNCHANGED <<store, nApplied, usedPaths, prevObj, prevMarked>>
    /\ UNCHANGED ext

\* The save (or remove) callback: the saved document with okStatus, or
\* errBody with status 500.
Saved(at, okStatus, errBody) ==
    /\ pc = at
    /\ \E ok \in BOOLEAN :
        IF ok
        THEN /\ store' = IF at = "removing" THEN Null ELSE Persist(store, obj, marked)
             /\ Send(okStatus, obj)
             /\ UNCHANGED err
        ELSE /\ err' = "SaveError"
             /\ Send(500, errBody)
             /\ UNCHANGED store
    /\ UNCHANGED <<handler, saveEnabled, req, obj, marked, touched, saveCalls,
                   removeCalls, nApplied, usedPaths, prevObj, prevMarked>>
    /\ UNCHANGED ext

pushArrayValue ==
    /\ handler' = "pushArrayValue"
    /\ Arrive("pushArrayValue", ListDocs, PushInputs)
pushArrayValue_saved ==
    /\ handler = "pushArrayValue"
    /\ Saved("saving", 200, Err("SaveError"))

addUniqueValuesToList ==
    /\ handler' = "addUniqueValuesToList"
    /\ Arrive("addUniqueValuesToList", ListDocs, AddUniqueInputs)
addUniqueValuesToList_saved ==
    /\ handler = "addUniqueValuesToList"
    /\ Saved("saving", 200, Err("SaveError"))

addArrayDuplicates ==
    /\ handler' = "addArrayDuplicates"
    /\ Arrive("addArrayDuplicates", ListDocs, ArrayFieldInputs)
addArrayDuplicates_saved ==
    /\ handler = "addArrayDuplicates"
    /\ Saved("saving", 200, Err("SaveError"))

removeArrayDuplicates ==
    /\ handler' = "removeArrayDuplicates"
    /\ Arrive("removeArrayDuplicates", ListDocs, DedupInputs)
removeArrayDuplicates_saved ==
    /\ handler = "removeArrayDuplicates"
    /\ Saved("saving", 200, Err("SaveError"))

genericInject ==
    /\ handler' = "genericInject"
    /\ Arrive("genericInject", ListDocs, InjectInputs)
genericInject_saved ==
    /\ handler = "genericInject"
    /\ Saved("saving", 200, Err("SaveError"))

\* Lines 373-449: the request is turned away before findOne when it names
\* nothing to delete or carries no query.
genericDeleteRoute ==
    /\ pc = "idle"
    /\ store \in ListDocs
    /\ handler' = "genericDeleteRoute"
    /\ \E se \in BOOLEAN, r \in DeleteInputs :
        /\ saveEnabled' = se
        /\ req' = r
        /\ IF deleteEarlyExit(r).kind = "send"
           THEN Apply(deleteEarlyExit(r))
           ELSE FindOne("genericDeleteRoute", se, r)
    /\ UNCHANGED <<store, nApplied, usedPaths, prevObj, prevMarked>>
    /\ UNCHANGED ext
genericDeleteRoute_saved ==
    /\ handler = "genericDeleteRoute"
    /\ Saved("saving", 200, Err("SaveError"))
genericDeleteRoute_removed ==
    /\ handler = "genericDeleteRoute"
    /\ Saved("removing", 200, Err("SaveError"))

\* Lines 1471-1476: on a save error modifyBid sends savedAuction, which is
\* undefined then.
modifyBid ==
    /\ handler' = "modifyBid"
    /\ Arrive("modifyBid", AuctionDocs, BidInputs)
modifyBid_saved ==
    /\ handler = "modifyBid"
    /\ Saved("saving", 200, Undef)

\* Lines 891-921: the handler reads no saveEnabled and has no save step.
testForDuplicates ==
    /\ pc = "idle"
    /\ store \in ListDocs
    /\ handler' = "testForDuplicates"
    /\ saveEnabled' = FALSE
    /\ \E r \in TestInputs :
        /\ req' = r
        /\ FindOne("testForDuplicates", FALSE, r)
    /\ UNCHANGED <<store, nApplied, usedPaths, prevObj, prevMarked>>
    /\ UNCHANGED ext

(***************************************************************************)
(* genericTransfer as a state machine: the callback of fromModel.find, the *)
(* callback of each toModel.find and the callback of each save().          *)
(***************************************************************************)
InitTransfer ==
    /\ store = Undef
    /\ Idle
    /\ \E from \in SeqsUpTo(SourceDocs, MaxSources), to \in SeqsUpTo(TargetDocs, MaxTargets) :
           transfer = [NoTransfer EXCEPT !.from = from, !.to = to]
    /\ race = NoRace
    /\ stats = NoStats
    /\ translate = NoTranslate
    /\ email = NoEmail

\* Lines 568-592: fromModel.find answers.  An error is sent with status
\* 500; otherwise one toModel.find is issued for every source document and
\* the request is answered at once.
genericTransfer_find ==
    /\ pc = "idle"
    /\ handler = ""
    /\ handler' = "genericTransfer"
    /\ \E r \in TransferInputs, error \in BOOLEAN :
           /\ req' = r
           /\ IF error
                 THEN /\ Send(500, Err("error"))
                      /\ UNCHANGED transfer
                 ELSE /\ Send(200, Val("Tried!"))
                      /\ transfer' = [transfer EXCEPT !.lookups = DOMAIN transfer.from]
    /\ UNCHANGED <<single, saveCalls, err, race, stats, translate, email>>

\* Lines 575-590: toModel.find answers for one source document.  An error
\* is logged and links is undefined, so links.forEach throws inside the
\* store's callback; otherwise toField is assigned on every link and save()
\* is called on it.
genericTransfer_links ==
    /\ handler = "genericTransfer"
    /\ pc # "crashed"
    /\ handler' = handler
    /\ \E i \in transfer.lookups, linkError \in BOOLEAN :
           LET currentObject == transfer.from[i]
               links == Links(transfer.to, currentObject, req.linkField)
               calls == {[source |-> i, target |-> j,
                          doc |-> Linked(transfer.to[j], currentObject, req)] : j \in links}
           IN IF linkError
                 THEN /\ transfer' = [transfer EXCEPT !.lookups = @ \ {i},
                                                      !.failed = @ \cup {<<"link", i, 0>>},
                                                      !.logged = @ \cup {<<"link", i, 0>>}]
                      /\ pc' = "crashed"
                      /\ err' = "TypeError"
                      /\ UNCHANGED saveCalls
                 ELSE /\ transfer' = [transfer EXCEPT !.lookups = @ \ {i},
                                                      !.saves = @ \cup calls,
                                                      !.saved = @ \cup calls]
                      /\ saveCalls' = saveCalls + Cardinality(calls)
                      /\ UNCHANGED <<pc, err>>
    /\ UNCHANGED <<single, req, resp, sends, race, stats, translate, email>>

\* Lines 581-588: the callback of one save().  It takes no argument, so
\* a failed save is neither seen nor logged; the first callback sets sent.
genericTransfer_saved ==
    /\ handler = "genericTransfer"
    /\ pc # "crashed"
    /\ handler' = handler
    /\ \E s \in transfer.saves, saveError \in BOOLEAN :
           transfer' = [transfer EXCEPT
                            !.saves = @ \ {s},
                            !.failed = IF saveError
                                          THEN @ \cup {<<"save", s.source, s.target>>}
                                          ELSE @,
                            !.sent = TRUE]
    /\ UNCHANGED <<single, req, resp, sends, saveCalls, pc, err>>
    /\ UNCHANGED <<race, stats, translate, email>>

NextTransfer ==
    \/ genericTransfer_find
    \/ genericTransfer_links
    \/ genericTransfer_saved

SpecTransfer == InitTransfer /\ [][NextTransfer]_vars

(***************************************************************************)
(* The two requests as a state machine: each fetches and mutates in one    *)
(* step (nothing else runs inside a callback) and its save answers in      *)
(* another, so the other request can run in between.                       *)
(***************************************************************************)
InitRace ==
    /\ store \in RaceDocs
    /\ Idle
    /\ transfer = NoTransfer
    /\ race = NoRace
    /\ stats = NoStats
    /\ translate = NoTranslate
    /\ email = NoEmail

\* Lines 506-553 and 711-732: findOne answers one of the requests and the
\* handler mutates its own in-memory copy.
mutation_findOne ==
    /\ handler = ""
    /\ handler' = handler
    /\ \E i \in Requesters, q \in RaceRequests, found \in {"doc", "none", "error"} :
           /\ race.reqs[i].pc = "idle"
           /\ LET object == IF found = "doc" THEN store ELSE Null
                  res == IF found = "error"
                            THEN Result(Undef, <<>>, {}, "send", 500, Err("FindError"),
                                        "FindError")
                            ELSE Mutate(object, q)
              IN race' = [race EXCEPT !.reqs[i] =
                             [pc |-> CASE res.kind = "save" -> "saving"
                                       [] res.kind = "crash" -> "crashed"
                                       [] OTHER -> "done",
                              q |-> q, fetched |-> object, obj |-> res.obj,
                              marked |-> res.marked, status |-> res.status]]
    /\ UNCHANGED <<core, transfer, stats, translate, email>>

\* Lines 555-556 and 734-739: the save of one of the requests answers.
mutation_saved ==
    /\ handler = ""
    /\ handler' = handler
    /\ \E i \in Requesters, ok \in BOOLEAN :
           LET r == race.reqs[i]
           IN /\ r.pc = "saving"
              /\ IF ok
                    THEN /\ store' = SaveCall(store, r.fetched, r.obj, r.marked)
                         /\ race' = [race EXCEPT
                                !.reqs[i].pc = "done",
                                !.reqs[i].status =
                                    IF r.q.handler = "genericChangeField" THEN 201 ELSE 200,
                                !.order = Append(@, i)]
                    ELSE /\ store' = store
                         /\ race' = [race EXCEPT !.reqs[i].pc = "done",
                                                 !.reqs[i].status = 500]
    /\ UNCHANGED <<saveEnabled, req, obj, marked, touched, saveCalls, pc,
                   removeCalls, resp, sends, err, nApplied, usedPaths, prevObj, prevMarked>>
    /\ UNCHANGED <<transfer, stats, translate, email>>

NextRace ==
    \/ mutation_findOne
    \/ mutation_saved

SpecRace == InitRace /\ [][NextRace]_vars

(***************************************************************************)
(* genericTranslate, modifyArrayValue and fireEmail as a state machine.    *)
(***************************************************************************)
\* Most findOne calls of fireEmail's loop (1000 in the code).
MaxEvents == 2

InitRequests ==
    /\ Idle
    /\ transfer = NoTransfer
    /\ race = NoRace
    /\ stats = NoStats
    /\ email = NoEmail
    /\ \/ /\ store \in ModifyDocs
          /\ translate = NoTranslate
       \/ /\ store = Undef
          /\ \E stored \in SeqsUpTo(TranslateDocs, MaxObjects) :
                 translate = [NoTranslate EXCEPT !.stored = stored]

\* Lines 456-489: the request arrives and model.find answers.  When there
\* is no error the callback answers 500 with the (null) error; otherwise it
\* runs the loop and sends nothing.
genericTranslate ==
    /\ pc = "idle"
    /\ store = Undef
    /\ handler' = "genericTranslate"
    /\ \E updates \in Updates, findError \in BOOLEAN :
           /\ req' = [updates |-> updates]
           /\ IF ~findError
                 THEN /\ Send(500, Null)
                      /\ translate' = [translate EXCEPT !.found = "ok"]
                      /\ UNCHANGED <<saveCalls, err>>
                 ELSE LET out == ForEachObject([objects |-> <<>>, marks |-> <<>>,
                                                saved |-> 0, err |-> ""],
                                               Found(translate.stored, findError), updates)
                      IN /\ translate' = [translate EXCEPT !.found = "error",
                                                           !.objects = out.objects,
                                                           !.marks = out.marks]
                         /\ saveCalls' = out.saved
                         /\ err' = out.err
                         /\ pc' = IF out.err = "" THEN "translated" ELSE "crashed"
                         /\ UNCHANGED <<resp, sends>>
    /\ UNCHANGED <<single, transfer, race, stats, email>>

\* Lines 748-792: the request arrives and findOne answers.
modifyArrayValue ==
    /\ pc = "idle"
    /\ store \in ModifyDocs
    /\ handler' = "modifyArrayValue"
    /\ \E fieldQuery \in FieldQueries, found \in {"doc", "none", "error"} :
           /\ req' = [fieldQuery |-> fieldQuery]
           /\ IF fieldQuery = <<>>
                 THEN /\ Send(500, Val("Bad fieldQuery"))
                      /\ UNCHANGED <<obj, marked, saveCalls, err>>
              ELSE IF found # "doc"
                 THEN /\ IF found = "error" THEN Send(500, Err("objectError"))
                         ELSE Send(404, Err("No objects found"))
                      /\ UNCHANGED <<obj, marked, saveCalls, err>>
              ELSE LET st == modifyArrayValueBody(store, fieldQuery)
                   IN /\ obj' = st.obj
                      /\ marked' = <<fieldQuery[1].field>>
                      /\ resp' = st.resp
                      /\ sends' = st.sends
                      /\ err' = st.err
                      /\ saveCalls' = IF st.err = "" THEN 1 ELSE 0
                      /\ pc' = IF st.err = "" THEN "saving" ELSE "crashed"
    /\ UNCHANGED <<store, saveEnabled, touched, removeCalls, nApplied, usedPaths,
                   prevObj, prevMarked>>
    /\ UNCHANGED ext

\* Lines 788-793: the save callback sends the error or the saved document,
\* also when the loop has sent a 404 already.
modifyArrayValue_saved ==
    /\ pc = "saving"
    /\ handler = "modifyArrayValue"
    /\ handler' = handler
    /\ \E ok \in BOOLEAN :
           LET st == SendIn([sends |-> sends, resp |-> resp, err |-> ""],
                            IF ok THEN 200 ELSE 500, IF ok THEN obj ELSE Err("saveError"))
           IN /\ store' = IF ok THEN Persist(store, obj, marked) ELSE store
              /\ sends' = st.sends
              /\ resp' = st.resp
              /\ err' = st.err
              /\ pc' = IF st.err = "" THEN "done" ELSE "crashed"
    /\ UNCHANGED <<saveEnabled, req, obj, marked, touched, saveCalls, removeCalls,
                   nApplied, usedPaths, prevObj, prevMarked>>
    /\ UNCHANGED ext

\* Lines 925-961: the request arrives.  With a query, findOne answers in
\* the same step; without one, the loop issues its findOne calls and the
\* request is acknowledged at once.
fireEmail ==
    /\ pc = "idle"
    /\ store = Undef
    /\ handler' = "fireEmail"
    /\ \E query \in BOOLEAN, found \in {"doc", "none", "error"} :
           /\ req' = [query |-> query]
           /\ IF ~query
                 THEN /\ found = "doc"
                      /\ email' = [email EXCEPT !.pending = MaxEvents]
                      /\ Send(200, Val("Sent"))
                      /\ UNCHANGED saveCalls
              ELSE IF found = "doc"
                 THEN /\ saveCalls' = saveCalls + 1
                      /\ pc' = "saving"
                      /\ UNCHANGED <<email, resp, sends>>
              ELSE /\ IF found = "error" THEN Send(500, Err("error"))
                      ELSE Send(500, Err("SystemEvent not found"))
                   /\ UNCHANGED <<email, saveCalls>>
    /\ UNCHANGED <<single, err, transfer, race, stats, translate>>

\* Lines 937-943: the save callback of the branch with a query.
fireEmail_saved ==
    /\ pc = "saving"
    /\ handler = "fireEmail"
    /\ handler' = handler
    /\ \E ok \in BOOLEAN :
           IF ok THEN Send(200, Val("savedEvent")) ELSE Send(500, Err("systemError"))
    /\ UNCHANGED <<single, req, saveCalls, err, ext>>

\* Lines 949-958: one findOne callback of the loop.  An error is sent with
\* status 500 although the request was acknowledged; an event found is
\* saved with no callback.
fireEmail_findOne ==
    /\ handler = "fireEmail"
    /\ pc = "done"
    /\ email.pending > 0
    /\ handler' = handler
    /\ \E found \in {"doc", "none", "error"} :
           LET st == IF found = "error"
                        THEN SendIn([sends |-> sends, resp |-> resp, err |-> ""],
                                    500, Err("error"))
                        ELSE [sends |-> sends, resp |-> resp, err |-> ""]
           IN /\ email' = [pending |-> email.pending - 1,
                           saves |-> IF found = "doc" THEN email.saves + 1 ELSE email.saves]
              /\ sends' = st.sends
              /\ resp' = st.resp
              /\ err' = st.err
              /\ pc' = IF st.err = "" THEN pc ELSE "crashed"
    /\ UNCHANGED <<single, req, saveCalls, transfer, race, stats, translate>>

NextRequests ==
    \/ genericTranslate
    \/ modifyArrayValue
    \/ modifyArrayValue_saved
    \/ fireEmail
    \/ fireEmail_saved
    \/ fireEmail_findOne

SpecRequests == InitRequests /\ [][NextRequests]_vars

\* Each callback the store or the event loop owes is eventually run.
FairRequests == SpecRequests /\ WF_vars(NextRequests)

(***************************************************************************)
(* getStatistics as a state machine: requests arrive one after another     *)
(* while the clock runs.                                                   *)
(***************************************************************************)
InitStats ==
    /\ store = Undef
    /\ Idle
    /\ transfer = NoTransfer
    /\ race = NoRace
    /\ stats = NoStats
    /\ translate = NoTranslate
    /\ email = NoEmail

\* A minute passes.
Tick ==
    /\ stats.now < MaxTime
    /\ handler' = handler
    /\ stats' = [stats EXCEPT !.now = @ + 1]
    /\ UNCHANGED <<single, req, saveCalls, resp, sends, err, pc>>
    /\ UNCHANGED <<transfer, race, translate, email>>

\* Lines 32-42: a request arrives.  A cache that has not expired is sent;
\* otherwise the four counts are started.
getStatistics ==
    /\ pc \in {"idle", "done"}
    /\ handler' = "getStatistics"
    /\ err' = ""
    /\ IF stats.existingStatistics # Null /\ ~Expired(stats.existingStatistics, stats.now)
          THEN /\ resp' = Response(200, stats.existingStatistics)
               /\ sends' = 1
               /\ pc' = "done"
               /\ stats' = [stats EXCEPT !.queries = 0]
          ELSE /\ resp' = NoResp
               /\ sends' = 0
               /\ pc' = "counting"
               /\ stats' = [stats EXCEPT !.queries = 4]
    /\ UNCHANGED <<single, req, saveCalls, transfer, race, translate, email>>

\* Lines 43-66: the four counts have settled.  When all resolved, the
\* object stamped with the current time replaces the cache and is sent;
\* when one rejected, the handler rejects with a new Error.
getStatistics_join ==
    /\ pc = "counting"
    /\ handler = "getStatistics"
    /\ handler' = handler
    /\ \E counts \in CountValues, failed \in BOOLEAN :
           IF failed
              THEN /\ Fail("Error calculating metrics")
                   /\ UNCHANGED stats
              ELSE LET statisticsObject == [computedTime |-> stats.now] @@ counts
                   IN /\ stats' = [stats EXCEPT !.existingStatistics = statisticsObject]
                      /\ Send(200, statisticsObject)
                      /\ UNCHANGED err
    /\ UNCHANGED <<single, req, saveCalls, transfer, race, translate, email>>

NextStats ==
    \/ Tick
    \/ getStatistics
    \/ getStatistics_join

SpecStats == InitStats /\ [][NextStats]_vars

Next ==
    \/ genericChangeField_findOne
    \/ genericChangeField_forEach
    \/ genericChangeField_end
    \/ genericChangeField_saved
    \/ genericDeleteRoute
    \/ genericDeleteRoute_saved
    \/ genericDeleteRoute_removed
    \/ genericInject
    \/ genericInject_saved
    \/ addUniqueValuesToList
    \/ addUniqueValuesToList_saved
    \/ pushArrayValue
    \/ pushArrayValue_saved
    \/ addArrayDuplicates
    \/ addArrayDuplicates_saved
    \/ removeArrayDuplicates
    \/ removeArrayDuplicates_saved
    \/ modifyBid
    \/ modifyBid_saved
    \/ testForDuplicates

Spec == Init /\ [][Next]_vars

(***************************************************************************)
(* Properties.                                                             *)
(***************************************************************************)
\* The handlers that read res.locals.saveEnabled and follow it.
DryRunHandlers ==
    {"genericChangeField", "genericDeleteRoute", "genericInject", "pushArrayValue",
     "addUniqueValuesToList", "addArrayDuplicates", "removeArrayDuplicates"}

\* req is a change of genericChangeField that the loop has read.
InChange == handler = "genericChangeField" /\ nApplied >= 1

\* The latest change read is a well-shaped change of the given tag, applied
\* to a fetched document.
Applying(tag) == InChange /\ req.shape = "one" /\ req.tag = tag /\ IsObject(prevObj)

\* The errors a change raises in the loop.
ChangeErrors == {"BadChange", "Unrecognized", "InvalidId", "NotArray", "TypeError"}

\* The proper prefixes of path p that name nothing in document d.
MissingLevels(d, p) == {n \in 1..(Len(p) - 1) : ~Has(d, SubSeq(p, 1, n))}

\* after differs from before at path p and along the way to it only: every
\* container on the way keeps its other keys with their values, and a
\* container made on the way holds the next segment alone.
RECURSIVE SameExcept(_, _, _)
SameExcept(before, after, p) ==
    IF p = <<>> THEN TRUE
    ELSE /\ IsObject(after)
         /\ Head(p) \in DOMAIN after.f
         /\ IF IsObject(before)
            THEN /\ after.t = before.t /\ after.v = before.v /\ after.e = before.e
                 /\ DOMAIN after.f = DOMAIN before.f \cup {Head(p)}
                 /\ \A k \in DOMAIN before.f \ {Head(p)} : after.f[k] = before.f[k]
            ELSE after.t = "obj" /\ DOMAIN after.f = {Head(p)}
         /\ SameExcept(Prop(before, Head(p)), after.f[Head(p)], Tail(p))

\* C1.  Dry run never persists: while a handler that follows saveEnabled
\* serves a request whose saveEnabled is false, from the request's arrival
\* to its response, neither save() nor remove() has been called and the
\* stored document is the one the request found.
C1_DryRunNeverPersists ==
    (handler \in DryRunHandlers /\ ~saveEnabled) =>
        /\ saveCalls = 0
        /\ removeCalls = 0
        /\ pc \notin {"saving", "removing"}

\* C1, the case: a dry run of genericDeleteRoute has answered with a
\* document it changed in memory, and the store holds the one it found.
C1_Witness ==
    /\ handler = "genericDeleteRoute"
    /\ ~saveEnabled
    /\ pc = "done"
    /\ resp.status = 200
    /\ IsObject(obj)
    /\ obj # store
    /\ resp.body = obj

\* C2.  Dry run and live run agree: when the live run of a handler, on the
\* stored document and the request at hand, hands a document to save() (or
\* remove()), the dry run of the same handler on the same document and
\* request answers with a success status and with that very document; for
\* genericChangeField, whose loop never reads saveEnabled, both runs answer
\* with the document the loop left and with a success status.
C2_DryRunMatchesLiveRun ==
    /\ (/\ handler \in DryRunHandlers \cup {"modifyBid"}
        /\ handler # "genericChangeField"
        /\ ~saveEnabled
        /\ pc = "done"
        /\ IsObject(obj)
        /\ BodyOf(handler, store, TRUE, req).kind \in {"save", "remove"})
       => /\ resp.status \in {200, 201}
          /\ resp.body = BodyOf(handler, store, TRUE, req).obj
    /\ (handler = "genericChangeField" /\ pc = "done" /\ err = "")
       => /\ resp.status \in {200, 201}
          /\ resp.body = obj

\* C3.  Dirty notification precedes every save: whenever save() has been
\* called and is pending, markModified has been called with every top-level
\* field the handler wrote, spliced or deleted in the document.
C3_DirtyBeforeSave ==
    pc = "saving" => touched \subseteq MarkedSet(marked)

\* C4.  An empty change set is a no-op: when genericChangeField has gone
\* through a changes collection of no entry for a fetched document, the
\* document is the one fetched, field by field, the stored one is the same,
\* and markModified has not been called.
C4_EmptyChangesNoOp ==
    (/\ handler = "genericChangeField"
     /\ nApplied = 0
     /\ pc \in {"saving", "done"}
     /\ IsObject(obj))
    => /\ obj = store
       /\ marked = <<>>
       /\ touched = {}

\* C4, the case: an empty changes collection went through a live run to
\* its 201 response.
C4_Witness ==
    /\ handler = "genericChangeField"
    /\ nApplied = 0
    /\ saveEnabled
    /\ pc = "done"
    /\ resp.status = 201
    /\ resp.body = store

\* C5.  The $push change appends: applied to a document where path P names
\* nothing, it leaves the array [v] at P; where P names an array A, it
\* leaves A's elements in their order followed by v.  In both cases it
\* raises no error, calls markModified once, with P's first segment, and
\* changes the document at P and in the containers leading to P only: every
\* other key of the document and of each container on the way keeps its
\* value (a primitive met on the way is replaced by the container made
\* for the next segment).
C5_PushAppends ==
    Applying("$push") =>
        LET P == req.path
            A == Get(prevObj, P)
            v == Val(req.value)
        IN /\ ~Has(prevObj, P) => Get(obj, P) = Arr(<<v>>)
           /\ (Has(prevObj, P) /\ IsArray(A)) => Get(obj, P) = [A EXCEPT !.e = A.e \o <<v>>]
           /\ (~Has(prevObj, P) \/ IsArray(A)) =>
                /\ err \notin ChangeErrors
                /\ marked = prevMarked \o <<P[1]>>
                /\ SameExcept(prevObj, obj, P)

\* C5, the case: v was appended to a nested array that held an element.
C5_Witness ==
    /\ Applying("$push")
    /\ Len(req.path) = 2
    /\ IsArray(Get(prevObj, req.path))
    /\ Len(Get(prevObj, req.path).e) >= 1
    /\ Get(obj, req.path).e = Get(prevObj, req.path).e \o <<Val(req.value)>>
    /\ "b" \in DOMAIN obj.f

\* C5, the other case: [v] was made at a path that named nothing.
C5_WitnessAbsent ==
    /\ Applying("$push")
    /\ ~Has(prevObj, req.path)
    /\ Get(obj, req.path) = Arr(<<Val(req.value)>>)

\* C6.  A $push on an existing value that is no array fails cleanly: the
\* request ends with an error response, the change leaves the document and
\* the markModified log as they were before it (as fetched and empty when
\* it is the only change), and save() is not called.
C6_PushOnNonArrayFails ==
    (/\ Applying("$push")
     /\ Has(prevObj, req.path)
     /\ ~IsArray(Get(prevObj, req.path)))
    => /\ err = "NotArray"
       /\ pc = "done"
       /\ resp.status >= 400
       /\ obj = prevObj
       /\ marked = prevMarked
       /\ saveCalls = 0
       /\ nApplied = 1 => (obj = store /\ marked = <<>> /\ touched = {})

\* C6, the case: a live request whose single change pushes onto a scalar.
C6_Witness ==
    /\ Applying("$push")
    /\ nApplied = 1
    /\ saveEnabled
    /\ Get(prevObj, req.path) = Val("s")
    /\ err = "NotArray"

\* C7.  A failed mutation is never persisted: once a change of the
\* sequence has raised an error, the request is over, save() has not been
\* called for it and the stored document is untouched, whatever saveEnabled
\* is and whatever the earlier changes wrote in memory.
C7_FailedChangeNeverSaved ==
    (handler = "genericChangeField" /\ err \in ChangeErrors) =>
        /\ saveCalls = 0
        /\ pc = "done"
        /\ resp.status >= 400
        /\ store \in ChangeDocs

\* C7, the case: in a live run the second change failed after the first
\* had changed the document in memory.
C7_Witness ==
    /\ InChange
    /\ nApplied = 2
    /\ saveEnabled
    /\ err = "NotArray"
    /\ IsObject(obj)
    /\ obj # store
    /\ marked # <<>>

\* C8.  Malformed changes are rejected: a change that is not an object of
\* exactly one operation/value pair, or whose operation is none of $set,
\* $setid, $setstatus and $push, ends the request with the invalid-operation
\* error (status 400) and leaves the document and the markModified log as
\* they were before it.
C8_MalformedRejected ==
    (InChange /\ (req.shape # "one" \/ req.tag \notin {"$set", "$setid", "$setstatus", "$push"}))
    => /\ err \in {"BadChange", "Unrecognized"}
       /\ resp.status = 400
       /\ pc = "done"
       /\ obj = prevObj
       /\ marked = prevMarked

C10_SetIdFailure ==
    (InChange /\ req.shape = "one" /\ req.tag = "$setid" /\ req.value \notin ValidIds)
    => /\ err = "InvalidId"
       /\ pc = "done"
       /\ resp.status >= 400
       /\ obj = prevObj
       /\ Get(obj, req.path) = Get(prevObj, req.path)
       /\ marked = prevMarked
       /\ saveCalls = 0

\* C10, the case: a live run met the unconvertible identifier at a path
\* that held a value.
C10_Witness ==
    /\ InChange
    /\ req.tag = "$setid"
    /\ req.value \notin ValidIds
    /\ saveEnabled
    /\ Has(prevObj, req.path)
    /\ err = "InvalidId"

\* C11.  Frame of $set, $setstatus and $push: a change of one of these
\* kinds at path P leaves every top-level field other than P's first
\* segment present with the value it had, and adds none; the identifier
\* field _id differs after the change only when P's first segment is _id.
C11_FrameOfSetAndAppend ==
    (/\ InChange
     /\ req.shape = "one"
     /\ req.tag \in {"$set", "$setstatus", "$push"}
     /\ IsObject(prevObj))
    => /\ IsObject(obj)
       /\ \A k \in (DOMAIN prevObj.f \cup DOMAIN obj.f) \ {req.path[1]} :
            /\ k \in DOMAIN prevObj.f
            /\ k \in DOMAIN obj.f
            /\ obj.f[k] = prevObj.f[k]
       /\ Prop(obj, "_id") # Prop(prevObj, "_id") => req.path[1] = "_id"

\* C11, the case: a $set inside a changed the document while b and _id,
\* both present, kept their values.
C11_Witness ==
    /\ Applying("$set")
    /\ req.path[1] = "a"
    /\ obj # prevObj
    /\ "b" \in DOMAIN prevObj.f
    /\ Prop(obj, "b") = Prop(prevObj, "b")
    /\ Prop(obj, "_id") = DocId

\* C11, the other case: the identifier changed under a path naming it.
C11_WitnessTargeted ==
    /\ Applying("$set")
    /\ req.path = <<"_id">>
    /\ Prop(prevObj, "_id") = DocId
    /\ Prop(obj, "_id") = Val(req.value)

\* The number of markModified calls made with field k.
Notified(k) == Cardinality({i \in 1..Len(marked) : marked[i] = k})

\* C12.  Each dirty field is notified exactly once: whenever save() has
\* been called and is pending, every top-level field the request wrote has
\* been passed to markModified exactly one time, also when several changes
\* share a top-level segment.
C12_NotifiedExactlyOnce ==
    pc = "saving" => \A k \in touched : Notified(k) = 1

\* The callback of handler h has run on a fetched document and nothing has
\* been saved yet: store is the document as fetched, obj the one in memory.
AfterBody(h) ==
    /\ handler = h
    /\ IsObject(obj)
    /\ pc = "saving" \/ (pc = "done" /\ ~saveEnabled)

\* C13.  Duplicate-and-append doubles the array: when arrayField held an
\* array A of length n, addArrayDuplicates leaves an array of length 2n
\* whose first n elements are A's, in order, and whose element n+i equals
\* element i by value.
C13_DuplicatesDouble ==
    (AfterBody("addArrayDuplicates") /\ IsArray(Prop(store, req.arrayField))) =>
        LET A == Prop(store, req.arrayField).e
            B == Prop(obj, req.arrayField)
        IN /\ IsArray(B)
           /\ Len(B.e) = 2 * Len(A)
           /\ \A i \in 1..Len(A) : B.e[i] = A[i] /\ B.e[Len(A) + i] = A[i]

\* C14.  Duplicates share no references with originals: after
\* addArrayDuplicates no object or array held by an original element is
\* the very object its appended copy holds.
C14_DuplicatesShareNothing ==
    (AfterBody("addArrayDuplicates") /\ IsArray(Prop(store, req.arrayField))) =>
        \A i \in 1..Len(Prop(store, req.arrayField).e) :
            Shared(Prop(store, req.arrayField).e[i]) = {}

\* The key of element el under key field K: Null when el has none.
KeyOf(el, K) == IF IsNullish(Prop(el, K)) THEN Null ELSE Val(toString(Prop(el, K)))

\* The positions of A whose element has no key or is the first with its key.
FirstOfKey(A, K) ==
    {i \in 1..Len(A) :
        KeyOf(A[i], K) = Null \/ \A j \in 1..(i - 1) : KeyOf(A[j], K) # KeyOf(A[i], K)}

RECURSIVE Pick(_, _, _)
\* The elements of A at the positions S from i on, in A's order.
Pick(A, S, i) ==
    IF i > Len(A) THEN <<>>
    ELSE (IF i \in S THEN <<A[i]>> ELSE <<>>) \o Pick(A, S, i + 1)

\* C15.  Deduplicate by key: with a key field K, removeArrayDuplicates
\* leaves exactly the elements of A that have no key or are the first in A
\* with their key value, in their original order.
C15_DedupByKey ==
    (/\ AfterBody("removeArrayDuplicates")
     /\ req.uniqueField # Null
     /\ IsArray(Prop(store, req.arrayField)))
    => LET A == Prop(store, req.arrayField).e
       IN Prop(obj, req.arrayField) = Arr(Pick(A, FirstOfKey(A, req.uniqueField.v), 1))

\* The positions of A whose element removeArrayDuplicates drops: those at
\* which the filtered prefix does not grow.
DroppedAt(A, uniqueField) ==
    {i \in 1..Len(A) :
        Len(Filter(SubSeq(A, 1, i), uniqueField, {}))
            = Len(Filter(SubSeq(A, 1, i - 1), uniqueField, {}))}

\* C16.  The duplicate report is read-only and agrees with deduplication:
\* for a fetched document whose field holds an array A (any array
\* removeArrayDuplicates works on, with or without a key field),
\* testForDuplicates answers 200 with originalLength = Len(A), with
\* originalLength = uniqeLength + the number of reported duplicates and with
\* exactly the elements removeArrayDuplicates would drop; the document is
\* not changed, markModified and save() are not called.
C16_DuplicateReport ==
    (/\ handler = "testForDuplicates"
     /\ IsObject(obj)
     /\ IsArray(Prop(store, req.field)))
    => LET A == Prop(store, req.field).e
       IN /\ pc = "done"
          /\ resp.status = 200
          /\ resp.body.originalLength = Len(A)
          /\ resp.body.originalLength
                = resp.body.uniqeLength + Len(resp.body.duplicateObjects)
          /\ resp.body.duplicateObjects = Pick(A, DroppedAt(A, req.uniqueField), 1)
          /\ obj = store
          /\ marked = <<>>
          /\ saveCalls = 0

\* C17.  NotAnArray for duplicate and deduplicate: for a fetched document
\* whose named field is absent or holds no array, addArrayDuplicates and
\* removeArrayDuplicates answer with a failure status, leave the document
\* as fetched and call neither markModified nor save(), whatever
\* saveEnabled is.
C17_NotAnArray ==
    (/\ handler \in {"addArrayDuplicates", "removeArrayDuplicates"}
     /\ IsObject(obj)
     /\ ~IsArray(Prop(store, req.arrayField)))
    => /\ pc = "done"
       /\ resp.status >= 400
       /\ err = "NotAnArray"
       /\ obj = store
       /\ marked = <<>>
       /\ touched = {}
       /\ saveCalls = 0

\* C17, the case: a live removeArrayDuplicates met a string in the field.
C17_Witness ==
    /\ handler = "removeArrayDuplicates"
    /\ saveEnabled
    /\ IsObject(obj)
    /\ Prop(store, req.arrayField) = Val("s")
    /\ resp.status = 404

\* C17, the other handler and the absent field.
C17_WitnessAbsent ==
    /\ handler = "addArrayDuplicates"
    /\ IsObject(obj)
    /\ req.arrayField \notin DOMAIN store.f
    /\ resp.status = 404

\* The field a pushArrayValue or genericInject request looks for its array
\* in: field, or the first segment of injectToField.
TargetField == IF handler = "pushArrayValue" THEN req.field ELSE req.injectToField[1]

\* C18.  Append and injection are no-ops on a missing array: for a fetched
\* document whose target field is absent or holds no array, pushArrayValue
\* and genericInject run to their response (or to save()) without an
\* error, with the document as fetched.
C18_NoOpOnMissingArray ==
    (/\ handler \in {"pushArrayValue", "genericInject"}
     /\ IsObject(obj)
     /\ ~IsArray(Prop(store, TargetField)))
    => /\ pc \in {"saving", "done"}
       /\ err \in {"", "SaveError"}
       /\ obj = store
       /\ (pc = "done" /\ err = "") => (resp.status = 200 /\ resp.body = store)

\* C19.  NotFound on zero matches: when findOne has answered a
\* single-document mutation handler with no document, the request ends
\* with a not-found failure response, and markModified and save() are not
\* called (genericChangeField is looked at once it has left its loop).
C19_NotFound ==
    (/\ handler \in DryRunHandlers
     /\ obj = Null
     /\ pc # "changes")
    => /\ pc = "done"
       /\ err = "NotFound"
       /\ resp.status >= 400
       /\ marked = <<>>
       /\ saveCalls = 0
       /\ removeCalls = 0

\* Response body b is x or holds x under one of its keys.
Carries(b, x) == b = x \/ (b.t = "obj" /\ \E k \in DOMAIN b.f : b.f[k] = x)

\* C20.  A save failure still returns the computed result: when save() has
\* reported an error, the response has a failure status and its body
\* carries both the store's error and the document as mutated in memory.
C20_SaveFailureCarriesResult ==
    (pc = "done" /\ err = "SaveError") =>
        /\ resp.status >= 400
        /\ Carries(resp.body, Err("SaveError"))
        /\ Carries(resp.body, obj)

(***************************************************************************)
(* genericTransfer.                                                        *)
(***************************************************************************)
\* Every callback of the transfer has run and none was handed an error.
TransferComplete ==
    /\ handler = "genericTransfer"
    /\ resp.status = 200
    /\ pc # "crashed"
    /\ transfer.lookups = {}
    /\ transfer.saves = {}
    /\ transfer.failed = {}

SameLink(S, T) == Prop(S, req.linkField) = Prop(T, req.linkField)

\* C21: once every find and every save callback has completed successfully,
\* save() was called on every target whose link value equals a source's,
\* with toField holding the fromField value of a source that shares the
\* target's link value; a target that matches no source was never modified
\* or saved.
C21_TransferResult ==
    TransferComplete =>
        /\ \A i \in DOMAIN transfer.from, j \in DOMAIN transfer.to :
               SameLink(transfer.from[i], transfer.to[j]) =>
                   \E s \in transfer.saved :
                       /\ s.target = j
                       /\ \E k \in DOMAIN transfer.from :
                              /\ SameLink(transfer.from[k], transfer.to[j])
                              /\ Prop(s.doc, req.toField)
                                     = Prop(transfer.from[k], req.fromField)
        /\ \A s \in transfer.saved :
               /\ \E i \in DOMAIN transfer.from :
                      SameLink(transfer.from[i], transfer.to[s.target])
               /\ SameExcept(transfer.to[s.target], s.doc, <<req.toField>>)

\* A completed transfer with a target that was saved with a source's value
\* and a target that matches no source.
C21_Witness ==
    /\ TransferComplete
    /\ req.fromField = "from"
    /\ \E s \in transfer.saved : Prop(s.doc, "to") \in {Val("f1"), Val("f2")}
    /\ \E j \in DOMAIN transfer.to :
           \A i \in DOMAIN transfer.from : ~SameLink(transfer.from[i], transfer.to[j])

\* C22: the transfer is best-effort: a failed link lookup or a failed
\* save is logged, and no such failure raises an uncaught error.
C22_BestEffort ==
    handler = "genericTransfer" =>
        /\ pc # "crashed"
        /\ transfer.failed \subseteq transfer.logged


(***************************************************************************)
(* Concurrent mutation requests.                                           *)
(***************************************************************************)
Succeeded(i) == race.reqs[i].pc = "done" /\ race.reqs[i].status \in {200, 201}

\* Both requests fetched the same stored document, both marked the field k
\* and both saved successfully, i before j.
SavedInTurn(i, j, k) ==
    /\ race.order = <<i, j>>
    /\ Succeeded(i) /\ Succeeded(j)
    /\ race.reqs[i].fetched = race.reqs[j].fetched
    /\ k \in MarkedSet(race.reqs[i].marked) \cap MarkedSet(race.reqs[j].marked)

\* C23: nothing serialises two mutation requests: when both fetched the
\* same stored document before either saved and both completed with a
\* success response, the field both changed is stored as the request that
\* saved last computed it from the document it fetched, so the change of
\* the other request is lost.
C23_LostUpdate ==
    \A i, j \in Requesters, k \in {"list", "b"} :
        SavedInTurn(i, j, k) =>
            /\ Prop(store, k) = Prop(race.reqs[j].obj, k)
            /\ Prop(race.reqs[j].obj, k) = Prop(Mutate(race.reqs[i].fetched, race.reqs[j].q).obj, k)

\* Two requests pushed different values onto the same array, both were
\* answered with success, and the stored array holds one more element than
\* the array both fetched: the value of the first saver is gone.
C23_Witness ==
    \E i, j \in Requesters :
        /\ SavedInTurn(i, j, "list")
        /\ race.reqs[i].q.tag = "$push" /\ race.reqs[j].q.tag = "$push"
        /\ race.reqs[i].q.value # race.reqs[j].q.value
        /\ race.reqs[i].q.handler # race.reqs[j].q.handler
        /\ Len(Prop(store, "list").e) = Len(Prop(race.reqs[i].fetched, "list").e) + 1
        /\ \A n \in DOMAIN Prop(store, "list").e :
               Prop(store, "list").e[n] # Val(race.reqs[i].q.value)

(***************************************************************************)
(* Answers: genericTranslate, modifyArrayValue, fireEmail.                 *)
(***************************************************************************)
\* C24: every request is answered: once a handler has taken a request, a
\* response is eventually sent, also when find reports an error.
C24_EveryRequestAnswered == (handler # "") ~> (sends >= 1)

\* C27: every request produces at most one response: modifyArrayValue
\* sends nothing after reporting that no element matched and fireEmail
\* sends nothing after its acknowledgement.
C27_AtMostOneResponse ==
    handler \in {"modifyArrayValue", "fireEmail", "genericTranslate"} => sends <= 1

\* What the translation of the stored documents gives when the loop runs.
Translated == 
    ForEachObject([objects |-> <<>>, marks |-> <<>>, saved |-> 0, err |-> ""],
                  Found(translate.stored, FALSE), req.updates)

\* C29: when find succeeds the values are moved in every matched document
\* and save() is called once per document; when find fails nothing is
\* mutated or saved and the error is reported.
C29_Translate ==
    (handler = "genericTranslate" /\ pc # "idle") =>
        IF translate.found = "ok"
           THEN /\ Translated.err = "" => /\ translate.objects = Translated.objects
                                          /\ saveCalls = Len(translate.stored)
           ELSE /\ translate.objects = <<>>
                /\ saveCalls = 0
                /\ resp = Response(500, Err("findError"))

(***************************************************************************)
(* genericInject.                                                          *)
(***************************************************************************)
\* The element of the fetched list that the identifier of the request
\* addresses: its index, 0 when none matches, -1 when the search throws.
Addressed ==
    LET arr == Prop(store, req.injectToField[1])
    IN IF ~IsArray(arr) THEN 0
       ELSE FindIndex([i \in 1..Len(arr.e) |->
                Call(IsNullish(Prop(arr.e[i], "_id")),
                     toString(Prop(arr.e[i], "_id")) = req.injectToFieldId[1])])

\* C25: injection appends to the addressed array: when the identifier of
\* the path matches an element and the final field of that element holds
\* an array, genericInject leaves that array holding its previous elements
\* followed by the elements of injectData, and nothing else in the
\* document changes.
C25_InjectAppends ==
    (/\ handler = "genericInject"
     /\ IsObject(obj)
     /\ pc \in {"saving", "crashed"} \/ (pc = "done" /\ ~saveEnabled)
     /\ Len(req.injectToField) = 2
     /\ Addressed > 0
     /\ IsArray(Prop(Prop(store, "list").e[Addressed], req.injectToField[2])))
    => LET list == Prop(store, "list")
           el == list.e[Addressed]
           target == Prop(el, req.injectToField[2])
           grown == [target EXCEPT !.e = @ \o req.injectData]
       IN /\ pc # "crashed"
          /\ obj = [store EXCEPT !.f = Put(@, "list",
                       ReplaceAt(list, Addressed,
                                 [el EXCEPT !.f = Put(@, req.injectToField[2], grown)]))]

(***************************************************************************)
(* addUniqueValuesToList.                                                  *)
(***************************************************************************)
\* The number of elements of q equal to x.
Count(q, x) == Cardinality({i \in DOMAIN q : q[i] = x})

\* addUniqueValuesToList has fetched a document whose target field holds
\* an array of identifiers, the request names identifiers, and the store is
\* as it was fetched.
AddingIds ==
    /\ handler = "addUniqueValuesToList"
    /\ IsObject(obj)
    /\ pc \in {"saving", "crashed"} \/ (pc = "done" /\ ~saveEnabled)
    /\ IsArray(Prop(store, req.field))
    /\ \A i \in DOMAIN Prop(store, req.field).e : Prop(store, req.field).e[i].t = "oid"
    /\ \A i \in DOMAIN req.idValues : req.idValues[i] \in ValidIds

\* C28: addUniqueValuesToList adds each identifier at most once: on an
\* array A of identifiers, every identifier of idValues occurs afterwards,
\* the elements of A keep their positions, what is appended are identifiers
\* of idValues that A did not hold, each once, and running the same request
\* on the result changes nothing.
C28_AddsEachOnce ==
    AddingIds =>
        LET A == Prop(store, req.field).e
            B == Prop(obj, req.field).e
            ids == {Oid(req.idValues[i]) : i \in DOMAIN req.idValues}
        IN /\ pc # "crashed"
           /\ Len(B) >= Len(A)
           /\ \A i \in DOMAIN A : B[i] = A[i]
           /\ \A x \in ids : Count(B, x) >= 1
           /\ \A i \in DOMAIN B : i > Len(A) =>
                  /\ B[i] \in ids
                  /\ Count(A, B[i]) = 0
                  /\ Count(B, B[i]) = 1
           /\ AddUnique(B, req.idValues) = [e |-> B, err |-> ""]

\* An identifier the array holds and one it lacks, repeated in idValues,
\* were added: the array grew by the missing one only.
C28_Witness ==
    /\ AddingIds
    /\ pc = "saving"
    /\ \E i, j \in DOMAIN req.idValues : i # j /\ req.idValues[i] = req.idValues[j]
    /\ Len(Prop(obj, req.field).e) = Len(Prop(store, req.field).e) + 1

\* A request naming an identifier the array holds already left it as it was.
C28_WitnessExisting ==
    /\ AddingIds
    /\ req.idValues # <<>>
    /\ Prop(store, req.field).e # <<>>
    /\ Prop(obj, req.field) = Prop(store, req.field)

(***************************************************************************)
(* getStatistics.                                                          *)
(***************************************************************************)
\* A cached object exists that was computed at most ten minutes ago.
Fresh ==
    /\ stats.existingStatistics # Null
    /\ stats.now - stats.existingStatistics.computedTime <= TenMinutes

\* C26: a request that finds a cached object at most ten minutes old is
\* answered with it and issues no store query; any other request starts
\* the four counts; when they resolve, the cache is replaced by an object
\* stamped with the current time, which is the answer; when one fails, the
\* cache keeps its value and the request fails.
C26_CacheExpiry ==
    [][/\ (pc \in {"idle", "done"} /\ stats'.now = stats.now) =>
              /\ stats'.existingStatistics = stats.existingStatistics
              /\ IF Fresh
                    THEN /\ pc' = "done"
                         /\ resp' = Response(200, stats.existingStatistics)
                         /\ stats'.queries = 0
                    ELSE /\ pc' = "counting"
                         /\ stats'.queries = 4
       /\ (pc = "counting" /\ pc' = "done") =>
              \/ /\ err' = ""
                 /\ \E counts \in CountValues :
                        stats'.existingStatistics = [computedTime |-> stats.now] @@ counts
                 /\ resp' = Response(200, stats'.existingStatistics)
              \/ /\ err' # ""
                 /\ stats'.existingStatistics = stats.existingStatistics
                 /\ resp'.status = 500]_vars

\* A request was answered from a cache exactly ten minutes old, with no
\* store query.
C26_Witness ==
    /\ handler = "getStatistics"
    /\ pc = "done"
    /\ stats.queries = 0
    /\ stats.existingStatistics # Null
    /\ stats.now = stats.existingStatistics.computedTime + TenMinutes
    /\ resp = Response(200, stats.existingStatistics)

\* An expired cache was replaced by an object stamped with the time of
\* the recomputation.
C26_WitnessRecomputed ==
    /\ handler = "getStatistics"
    /\ pc = "done"
    /\ stats.queries = 4
    /\ err = ""
    /\ stats.existingStatistics # Null
    /\ stats.existingStatistics.computedTime = stats.now
    /\ stats.now > TenMinutes

====
